---- MODULE Spec2Model ----
(***************************************************************************)
(* Verification model of the avatar lipsync front end:                     *)
(*   - the morph-target blending engine (simulateFrameUpdate,              *)
(*     applyMorphTarget, viseme selection),                                *)
(*   - the Avatar component's lipsync error handling (initialisation       *)
(*     effect, per-frame audio processing, fallback mode, retry timers),   *)
(*   - the error classifier, the recovery table and the fallback           *)
(*     synthesizer of utils/lipsyncErrorHandler.js,                        *)
(*   - the AdaptivePerformanceOptimizer of utils/lipsyncOptimization.js.   *)
(*                                                                         *)
(* Intensities and scores are fixed-point numbers: the integer n stands    *)
(* for n / SCALE.  Lerp speeds and the expression blend factor are kept    *)
(* in tenths (3 stands for 0.3).                                           *)
(***************************************************************************)
EXTENDS Integers, Sequences, FiniteSets, TLC

VARIABLES
  morphTargets,      \* blend-target name -> intensity (fixed point)
  frameCount,        \* frames simulated so far
  facialExpression,  \* expression name given to the last frame
  lipsyncVisemes,    \* viseme sample given to the last frame (entries in order)
  hasActiveLipsync,  \* lipsync-active flag given to the last frame
  appliedVisemes,    \* morph targets driven toward a viseme score in the last frame
  sample,            \* input of the viseme selection
  selected,          \* output of the viseme selection
  phase,             \* position of the Avatar component / of the selection run
  browserSupported,  \* Avatar state: browserSupported
  fallbackMode,      \* Avatar state: fallbackMode
  lipsyncError,      \* Avatar state: lipsyncError (a message, or NullMessage)
  retryCount,        \* Avatar state: retryCount
  lipsyncRef,        \* wawaLipsyncRef.current is set
  retryTimer,        \* pending initialisation retry timer, or NoTimer
  fallbackTimer,     \* number of pending temporary-fallback timers
  audio,             \* audio element seen by the last frame, or NoAudio
  blink,             \* blink input of the last frame
  analyzerInvoked,   \* the last frame called processAudio
  frameReturned,     \* the last frame returned normally to the renderer
  visemeSource,      \* where the last frame took its visemes from
  errorKind,         \* kind classified for the last caught error, or Null
  loggedErrors,      \* number of errors logged by logLipsyncError
  everUnsupported,   \* an unsupported browser was detected or classified
  constructions,     \* number of Lipsync constructor calls
  browser,           \* browser the user agent is recognised as
  optimalConfig,     \* the module-level OPTIMAL_LIPSYNC_CONFIG object
  currentConfig,     \* optimizer: currentConfig
  configIsOptimal,   \* currentConfig is the module-level object itself
  smoothingIsOptimal, \* currentConfig.smoothing is the module-level smoothing
  performanceHistory, \* optimizer: stats of the recorded snapshots, oldest first
  adaptationCount,   \* optimizer: adaptationCount
  snapshotsRecorded, \* number of analyzePerformance calls
  optCall,           \* the optimizer method called last
  returnedConfig,    \* what adaptConfiguration returned last
  adapted,           \* the last adaptConfiguration call changed the configuration
  verdict,           \* what shouldAdapt returned last
  statsPool,         \* the stats snapshots the caller hands to analyzePerformance
  snapshotBudget,    \* number of analyzePerformance calls the caller makes at most
  errorInput,        \* the value handed to categorizeError
  errorResult,       \* what categorizeError did last: a kind, or a thrown TypeError
  errorCalls,        \* number of categorizeError calls on errorInput
  strategyInput,     \* the error type handed to getRecoveryStrategy
  strategyResult,    \* what getRecoveryStrategy returned last
  fallbackInput,     \* audio element and intensity handed to generateFallbackLipsync
  fallbackResult,    \* what generateFallbackLipsync returned last
  monitorClass,      \* which performance monitor class the object is
  processingTime,    \* monitor: the timing samples held, oldest first
  timingsRecorded,   \* number of endTiming calls made
  errorCount,        \* monitor: errorCount
  successCount,      \* monitor: successCount
  monitorCall,       \* the monitor method called last
  lastError,         \* monitor: kind of metrics.lastError, or Null
  monitorStats,      \* what getStats returned last
  twinMorphTargets,  \* blend targets of a second run that receives the same expressions
  twinVisemes,       \* viseme sample given to the last frame of the second run
  twinActive,        \* lipsync-active flag given to the last frame of the second run
  queue,             \* ChatProvider state: queue, the assistant messages to play
  currentMessage,    \* ChatProvider state: message (a message, or NoCurrentMessage)
  loading,           \* ChatProvider state: loading
  sessionId,         \* ChatProvider state: sessionId
  userQueue,         \* userQueueRef.current
  sending,           \* sendingRef.current
  inFlight,          \* the requests handed to fetch that have not settled
  effectPending,     \* the effect on [queue] is scheduled
  chatMounted,       \* the effects of the first render have run
  received,          \* history: every message put on the queue, in order
  consumed,          \* history: messages removed by onMessagePlayed
  answered,          \* history: requests that have ended
  failed,            \* history: requests that ended in the catch block
  pumpSessionId,     \* the sessionId the running pumpUserQueue closed over
  submitted,         \* history: the texts pushed on userQueueRef, in order
  sent,              \* history: the requests handed to fetch, in order
  shown,             \* history: positions in received that have been current
  listening,         \* SpeechInput state: listening
  recognition,       \* the SpeechRecognition object: inactive, starting or active
  interimRef,        \* SpeechInput interimRef.current
  finalRef,          \* SpeechInput finalRef.current
  isProcessing,      \* SpeechInput state: isProcessing
  autoSend,          \* SpeechInput prop: autoSend
  cleanupTimers,     \* delays of the cleanup timeouts onend has set and that have not run
  heardFinal,        \* history: the final results of the current session, joined
  heardInterim,      \* history: the interim text of the last result of the session
  sessionsStarted,   \* history: calls of rec.start()
  resultsHeard       \* history: result events of the current session

vars == << morphTargets, frameCount, facialExpression, lipsyncVisemes,
           hasActiveLipsync, appliedVisemes, sample, selected, phase,
           browserSupported, fallbackMode, lipsyncError, retryCount,
           lipsyncRef, retryTimer, fallbackTimer, audio, blink,
           analyzerInvoked, frameReturned, visemeSource, errorKind,
           loggedErrors, everUnsupported, constructions, browser,
           optimalConfig, currentConfig, configIsOptimal, smoothingIsOptimal,
           performanceHistory, adaptationCount, snapshotsRecorded, optCall,
           returnedConfig, adapted, verdict, statsPool, snapshotBudget,
           errorInput, errorResult, errorCalls, strategyInput, strategyResult,
           fallbackInput, fallbackResult,
           monitorClass, processingTime, timingsRecorded, errorCount,
           successCount, monitorCall, lastError, monitorStats,
           twinMorphTargets, twinVisemes, twinActive,
           queue, currentMessage, loading, sessionId, userQueue, sending,
           inFlight, effectPending, chatMounted, received, consumed, answered,
           failed, pumpSessionId, submitted, sent, shown,
           listening, recognition, interimRef, finalRef, isProcessing,
           autoSend, cleanupTimers, heardFinal, heardInterim,
           sessionsStarted, resultsHeard >>

optVars == << browser, optimalConfig, currentConfig, configIsOptimal,
              smoothingIsOptimal, performanceHistory, adaptationCount,
              snapshotsRecorded, optCall, returnedConfig, adapted, verdict,
              statsPool, snapshotBudget >>

blendVars == << morphTargets, frameCount, facialExpression, lipsyncVisemes,
                hasActiveLipsync, appliedVisemes >>

selectVars == << sample, selected >>

handlerVars == << errorInput, errorResult, errorCalls, strategyInput,
                  strategyResult, fallbackInput, fallbackResult >>

monitorVars == << monitorClass, processingTime, timingsRecorded, errorCount,
                 successCount, monitorCall, lastError, monitorStats >>

twinVars == << twinMorphTargets, twinVisemes, twinActive >>

chatVars == << queue, currentMessage, loading, sessionId, userQueue,
                sending, inFlight, effectPending, chatMounted, received,
                consumed, answered, failed, pumpSessionId, submitted, sent,
                shown >>

avatarVars == << browserSupported, fallbackMode, lipsyncError, retryCount,
                 lipsyncRef, retryTimer, fallbackTimer, audio, blink,
                 analyzerInvoked, frameReturned, visemeSource, errorKind,
                 loggedErrors, everUnsupported, constructions >>

speechVars == << listening, recognition, interimRef, finalRef, isProcessing,
                  autoSend, cleanupTimers, heardFinal, heardInterim,
                  sessionsStarted, resultsHeard >>

----------------------------------------------------------------------------
(* Numbers *)

SCALE == 10 ^ 8

Hundredths(n) == n * (SCALE \div 100)

Thousandths(n) == n * (SCALE \div 1000)

Min(a, b) == IF a < b THEN a ELSE b

Max(a, b) == IF a > b THEN a ELSE b

Null == "null"

\* the null of a state that otherwise holds a message
NullMessage == << Null >>

\* a falsy thrown value such as null or undefined
NullError == [ falsy |-> TRUE, name |-> NullMessage, message |-> NullMessage ]

\* no retry timer is pending
NoTimer == [ pending |-> FALSE, kind |-> Null, delay |-> 0 ]

\* audioRef.current is null
NoAudio ==
  [ present |-> FALSE, paused |-> TRUE, ended |-> FALSE, currentTime |-> 0,
    duration |-> 0 ]

----------------------------------------------------------------------------
(* Bounds of the model *)

MaxFrames == 2

MaxSampleLen == 4

----------------------------------------------------------------------------
(* LIPSYNC_SMOOTHING *)

ACTIVE_LERP_SPEED == 3

NEUTRAL_LERP_SPEED == 2

MIN_THRESHOLD == Hundredths(2)

MAX_BLEND_VISEMES == 3

EXPRESSION_LERP_SPEED == 1

EXPRESSION_BLEND_FACTOR == 3

----------------------------------------------------------------------------
(* The morph targets, the viseme mapping and the expression catalog *)

VisemeTargets ==
  { "viseme_sil", "viseme_PP", "viseme_FF", "viseme_AA", "viseme_E",
    "viseme_I", "viseme_O", "viseme_U" }

ExpressionTargets ==
  { "browInnerUp", "eyeSquintLeft", "eyeSquintRight", "mouthSmileLeft",
    "mouthSmileRight", "mouthFrownLeft", "mouthFrownRight", "eyeWideLeft",
    "eyeWideRight", "jawOpen", "mouthFunnel" }

BlinkTargets == { "eyeBlinkLeft", "eyeBlinkRight" }

MorphTargetNames == VisemeTargets \cup ExpressionTargets \cup BlinkTargets

\* Object.keys(visemeMapping), in insertion order
visemeKeys ==
  << "viseme_sil", "viseme_PP", "viseme_FF", "viseme_AA", "viseme_E",
     "viseme_I", "viseme_O", "viseme_U", "A", "E", "I", "O", "U" >>

visemeMapping ==
  [ k \in { visemeKeys[i] : i \in DOMAIN visemeKeys } |->
      CASE k = "A" -> "viseme_AA"
        [] k = "E" -> "viseme_E"
        [] k = "I" -> "viseme_I"
        [] k = "O" -> "viseme_O"
        [] k = "U" -> "viseme_U"
        [] OTHER -> k ]

\* visemeMapping[viseme], Null when the key is not mapped
MapViseme(viseme) ==
  IF viseme \in DOMAIN visemeMapping THEN visemeMapping[viseme] ELSE Null

\* Object.values(visemeMapping): the aliases make five targets occur twice
allVisemeTargets == [ i \in DOMAIN visemeKeys |-> visemeMapping[visemeKeys[i]] ]

isVisemeTarget(target) ==
  \E i \in DOMAIN allVisemeTargets : allVisemeTargets[i] = target

facialExpressions ==
  [ default |-> << >>,
    smile |-> [ browInnerUp |-> Hundredths(17),
                eyeSquintLeft |-> Hundredths(40),
                eyeSquintRight |-> Hundredths(44),
                mouthSmileLeft |-> Hundredths(61),
                mouthSmileRight |-> Hundredths(41) ],
    sad |-> [ mouthFrownLeft |-> Hundredths(100),
              mouthFrownRight |-> Hundredths(100),
              browInnerUp |-> Thousandths(452),
              eyeSquintLeft |-> Hundredths(72),
              eyeSquintRight |-> Hundredths(75) ],
    surprised |-> [ eyeWideLeft |-> Hundredths(50),
                    eyeWideRight |-> Hundredths(50),
                    jawOpen |-> Thousandths(351),
                    mouthFunnel |-> Hundredths(100),
                    browInnerUp |-> Hundredths(100) ],
    testExpression |-> [ mouthSmileLeft |-> Hundredths(60),
                         viseme_AA |-> Hundredths(20) ] ]

createMockMorphTargetSystem == [ t \in MorphTargetNames |-> 0 ]

----------------------------------------------------------------------------
(* applyMorphTarget *)

\* the encoding of the number NaN: an integer no intensity and no input takes
NaN == 0 - 2 ^ 30

\* Math.max(0, Math.min(value, 1)); Math.min and Math.max return NaN for NaN
clampedValue(value) == IF value = NaN THEN NaN ELSE Max(0, Min(value, SCALE))

\* mutant: a fraction of the goal is added, not of the distance to it
lerpAdditive(a, b, t) == a + (b * t) \div 10

\* current + (goal - current) * speed; arithmetic on NaN gives NaN
lerp(a, b, t) == IF a = NaN \/ b = NaN THEN NaN ELSE a + ((b - a) * t) \div 10

\* mutant: the value is not clamped before the interpolation
applyMorphTargetUnclamped(m, target, value, lerpSpeed) ==
  IF target \in DOMAIN m
    THEN [ m EXCEPT ![target] = lerp(m[target], value, lerpSpeed) ]
    ELSE m

applyMorphTarget(m, target, value, lerpSpeed) ==
  IF target \in DOMAIN m
    THEN [ m EXCEPT ![target] = lerp(m[target], clampedValue(value), lerpSpeed) ]
    ELSE m

----------------------------------------------------------------------------
(* simulateFrameUpdate: the per-frame blending logic *)

Entry(k, v) == [ viseme |-> k, value |-> v ]

\* lipsyncVisemes is null
NoVisemes == << Entry(Null, 0) >>

\* value * blendFactor; the product of NaN is NaN
blended(value, active) ==
  IF value = NaN
    THEN NaN
    ELSE (value * (IF active THEN EXPRESSION_BLEND_FACTOR ELSE 10)) \div 10

\* mutant: the lipsync blend factor scales every target of the profile
ApplyExpressionEntryAllBlended(m, key, value, active) ==
  IF key \in BlinkTargets
    THEN m
    ELSE applyMorphTarget(m, key,
           blended(value, active),
           EXPRESSION_LERP_SPEED)

\* mutant: the blink targets of a profile are applied like the others
ApplyExpressionEntryBlinking(m, key, value, active) ==
  IF isVisemeTarget(key)
    THEN applyMorphTarget(m, key,
           blended(value, active),
           EXPRESSION_LERP_SPEED)
    ELSE applyMorphTarget(m, key, value, EXPRESSION_LERP_SPEED)

\* "Apply facial expressions": one entry of the expression mapping
ApplyExpressionEntry(m, key, value, active) ==
  IF key \in BlinkTargets
    THEN m
    ELSE IF isVisemeTarget(key)
      THEN applyMorphTarget(m, key,
             blended(value, active),
             EXPRESSION_LERP_SPEED)
      ELSE applyMorphTarget(m, key, value, EXPRESSION_LERP_SPEED)

RECURSIVE ApplyExpressionEntries(_, _, _, _)
ApplyExpressionEntries(m, mapping, keys, active) ==
  IF keys = {}
    THEN m
    ELSE LET key == CHOOSE k \in keys : TRUE
         IN ApplyExpressionEntries(
              ApplyExpressionEntry(m, key, mapping[key], active),
              mapping, keys \ {key}, active)

ApplyFacialExpression(m, expression, active) ==
  IF expression # Null /\ expression \in DOMAIN facialExpressions
    THEN ApplyExpressionEntries(m, facialExpressions[expression],
                                DOMAIN facialExpressions[expression], active)
    ELSE m

\* the condition under which a sample entry is applied
VisemeApplies(entry) ==
  /\ MapViseme(entry.viseme) # Null
  /\ entry.value # NaN
  /\ entry.value > MIN_THRESHOLD

\* "Apply lipsync visemes": the sample entries from index i on
RECURSIVE ApplyVisemeEntries(_, _, _, _)
ApplyVisemeEntries(m, entries, i, speed) ==
  IF i > Len(entries)
    THEN m
    ELSE ApplyVisemeEntries(
           IF VisemeApplies(entries[i])
             THEN applyMorphTarget(m, MapViseme(entries[i].viseme),
                                   entries[i].value, speed)
             ELSE m,
           entries, i + 1, speed)

ApplyLipsyncVisemes(m, visemes, active, speed) ==
  IF active /\ visemes # NoVisemes
    THEN ApplyVisemeEntries(m, visemes, 1, speed)
    ELSE m

\* the morph targets the viseme step drives toward a score
AppliedTargets(visemes, active) ==
  IF active /\ visemes # NoVisemes
    THEN { MapViseme(visemes[i].viseme) :
             i \in { j \in DOMAIN visemes : VisemeApplies(visemes[j]) } }
    ELSE {}

\* activeVisemes of "Return unused viseme targets to neutral"
activeVisemes(visemes) ==
  IF visemes # NoVisemes
    THEN { MapViseme(visemes[i].viseme) : i \in DOMAIN visemes } \ { Null }
    ELSE {}

\* mutant: unused viseme targets return at the speed of the expressions
RECURSIVE ReturnToNeutralAtExpressionSpeed(_, _, _)
ReturnToNeutralAtExpressionSpeed(m, active, i) ==
  IF i > Len(allVisemeTargets)
    THEN m
    ELSE ReturnToNeutralAtExpressionSpeed(
           IF allVisemeTargets[i] \notin active
             THEN applyMorphTarget(m, allVisemeTargets[i], 0,
                                   EXPRESSION_LERP_SPEED)
             ELSE m,
           active, i + 1)

RECURSIVE ReturnToNeutral(_, _, _)
ReturnToNeutral(m, active, i) ==
  IF i > Len(allVisemeTargets)
    THEN m
    ELSE ReturnToNeutral(
           IF allVisemeTargets[i] \notin active
             THEN applyMorphTarget(m, allVisemeTargets[i], 0, NEUTRAL_LERP_SPEED)
             ELSE m,
           active, i + 1)

BlendFrame(m, expression, visemes, active, speed) ==
  ReturnToNeutral(
    ApplyLipsyncVisemes(ApplyFacialExpression(m, expression, active),
                        visemes, active, speed),
    activeVisemes(visemes), 1)

simulateFrameUpdate(m, expression, visemes, active) ==
  BlendFrame(m, expression, visemes, active, ACTIVE_LERP_SPEED)

----------------------------------------------------------------------------
(* Inputs of the blending engine *)

ExpressionNames ==
  { "default", "smile", "sad", "surprised", "testExpression",
    "nonexistent_expression", Null }

VisemeSamples ==
  { NoVisemes,
    << >>,
    << Entry("viseme_AA", Hundredths(80)) >>,
    << Entry("viseme_AA", Hundredths(1)), Entry("viseme_E", Hundredths(3)) >>,
    << Entry("viseme_AA", Hundredths(200)), Entry("viseme_E", 0 - Hundredths(50)) >>,
    << Entry("viseme_AA", Hundredths(80)), Entry("viseme_E", Hundredths(70)),
       Entry("viseme_I", Hundredths(60)), Entry("viseme_O", Hundredths(50)),
       Entry("viseme_U", Hundredths(40)), Entry("viseme_PP", Hundredths(30)),
       Entry("viseme_sil", Hundredths(20)) >>,
    << Entry("unknown_viseme", Hundredths(80)), Entry("viseme_AA", Hundredths(60)) >>,
    << Entry("A", Hundredths(50)), Entry("viseme_E", Hundredths(2)) >> }

----------------------------------------------------------------------------
(* utils/lipsyncOptimization.js: configurations *)

Tenths(n) == n * (SCALE \div 10)

Smoothing(active, neutral, threshold, maxBlend, blendFactor) ==
  [ ACTIVE_LERP_SPEED |-> active, NEUTRAL_LERP_SPEED |-> neutral,
    MIN_THRESHOLD |-> threshold, MAX_BLEND_VISEMES |-> maxBlend,
    EXPRESSION_BLEND_FACTOR |-> blendFactor ]

Config(fftSize, historySize, smoothing) ==
  [ fftSize |-> fftSize, historySize |-> historySize, smoothing |-> smoothing ]

\* the module-level object as the module is loaded
OPTIMAL_LIPSYNC_CONFIG ==
  Config(1024, 8, Smoothing(Tenths(3), Tenths(2), Hundredths(2), 3, Tenths(3)))

MAX_PROCESSING_TIME == Hundredths(100)

TARGET_FPS == 60

BROWSER_OPTIMIZATIONS ==
  [ chrome |-> [ fftSize |-> 1024, historySize |-> 8 ],
    firefox |-> [ fftSize |-> 1024, historySize |-> 6 ],
    safari |-> [ fftSize |-> 512, historySize |-> 4 ],
    edge |-> [ fftSize |-> 1024, historySize |-> 8 ] ]

\* the browsers a user agent is recognised as; "other" matches no branch
Browsers == { "chrome", "firefox", "safari", "other" }

\* detectBrowserAndOptimize: for a recognised browser a shallow copy of the
\* module-level object with the browser's sizes, otherwise that object itself
detectBrowserAndOptimize(b, optimal) ==
  IF b \in DOMAIN BROWSER_OPTIMIZATIONS
    THEN Config(BROWSER_OPTIMIZATIONS[b].fftSize,
                BROWSER_OPTIMIZATIONS[b].historySize, optimal.smoothing)
    ELSE optimal

\* the configuration object returned is the module-level object
ReturnsOptimalObject(b) == b \notin DOMAIN BROWSER_OPTIMIZATIONS

IdleOptimizer ==
  /\ browser = "other"
  /\ optimalConfig = OPTIMAL_LIPSYNC_CONFIG
  /\ currentConfig = OPTIMAL_LIPSYNC_CONFIG
  /\ configIsOptimal = TRUE
  /\ smoothingIsOptimal = TRUE
  /\ performanceHistory = << >>
  /\ adaptationCount = 0
  /\ snapshotsRecorded = 0
  /\ optCall = "none"
  /\ returnedConfig = OPTIMAL_LIPSYNC_CONFIG
  /\ adapted = FALSE
  /\ verdict = FALSE
  /\ statsPool = {}
  /\ snapshotBudget = 0

----------------------------------------------------------------------------
(* Specification of the blending engine: frames with free inputs *)

IdleAvatar ==
  /\ phase = "blend"
  /\ browserSupported = TRUE
  /\ fallbackMode = FALSE
  /\ lipsyncError = NullMessage
  /\ retryCount = 0
  /\ lipsyncRef = FALSE
  /\ retryTimer = NoTimer
  /\ fallbackTimer = 0
  /\ audio = NoAudio
  /\ blink = 0
  /\ analyzerInvoked = FALSE
  /\ frameReturned = TRUE
  /\ visemeSource = "none"
  /\ errorKind = Null
  /\ loggedErrors = 0
  /\ everUnsupported = FALSE
  /\ constructions = 0

NoSelection ==
  /\ sample = << >>
  /\ selected = << >>

\* no call of categorizeError or getRecoveryStrategy has been made
NoClassification ==
  /\ errorResult = Null
  /\ errorCalls = 0
  /\ strategyInput = Null
  /\ strategyResult =
       [ delay |-> 0, maxRetries |-> 0,
         fallbackConfig |-> [ fftSize |-> 0, historySize |-> 0 ] ]

\* no call of generateFallbackLipsync has been made
NoFallbackCall ==
  fallbackResult = [ called |-> FALSE, visemes |-> << >> ]

IdleHandler ==
  /\ errorInput = NullError
  /\ NoClassification
  /\ fallbackInput = [ audio |-> NoAudio, intensity |-> 0 ]
  /\ NoFallbackCall

\* no performance monitor is in use
IdleMonitor ==
  /\ monitorClass = Null
  /\ processingTime = << >>
  /\ timingsRecorded = 0
  /\ errorCount = 0
  /\ successCount = 0
  /\ monitorCall = Null
  /\ lastError = Null
  /\ monitorStats = [ called |-> FALSE, isNaN |-> FALSE, errorRate |-> 0 ]

\* no second run is observed
NoTwin ==
  /\ twinMorphTargets = createMockMorphTargetSystem
  /\ twinVisemes = NoVisemes
  /\ twinActive = FALSE

\* message is null
NoCurrentMessage == [ present |-> FALSE, text |-> 0, audio |-> FALSE ]

\* no ChatProvider is rendered
IdleChat ==
  /\ queue = << >>
  /\ currentMessage = NoCurrentMessage
  /\ loading = FALSE
  /\ sessionId = "default"
  /\ userQueue = << >>
  /\ sending = FALSE
  /\ inFlight = << >>
  /\ effectPending = FALSE
  /\ chatMounted = FALSE
  /\ received = << >>
  /\ consumed = 0
  /\ answered = 0
  /\ failed = 0
  /\ pumpSessionId = "default"
  /\ submitted = << >>
  /\ sent = << >>
  /\ shown = {}

\* no SpeechInput is rendered
NoSpeechInput ==
  /\ listening = FALSE
  /\ recognition = "inactive"
  /\ interimRef = ""
  /\ finalRef = ""
  /\ isProcessing = FALSE
  /\ autoSend = TRUE
  /\ cleanupTimers = << >>
  /\ heardFinal = ""
  /\ heardInterim = ""
  /\ sessionsStarted = 0
  /\ resultsHeard = 0

NoFrames ==
  /\ morphTargets = createMockMorphTargetSystem
  /\ frameCount = 0
  /\ facialExpression = Null
  /\ lipsyncVisemes = NoVisemes
  /\ hasActiveLipsync = FALSE
  /\ appliedVisemes = {}

Init ==
  /\ NoFrames
  /\ NoSpeechInput
  /\ IdleChat
  /\ NoTwin
  /\ IdleMonitor
  /\ IdleHandler
  /\ NoSelection
  /\ IdleAvatar
  /\ IdleOptimizer

SimulateFrame ==
  /\ frameCount < MaxFrames
  /\ \E e \in ExpressionNames, v \in VisemeSamples, a \in BOOLEAN :
       /\ morphTargets' = simulateFrameUpdate(morphTargets, e, v, a)
       /\ facialExpression' = e
       /\ lipsyncVisemes' = v
       /\ hasActiveLipsync' = a
       /\ appliedVisemes' = AppliedTargets(v, a)
  /\ frameCount' = frameCount + 1
  /\ UNCHANGED << selectVars, handlerVars, phase, avatarVars, optVars,
                  monitorVars, twinVars, chatVars, speechVars >>

resetMorphTargets ==
  /\ frameCount > 0
  /\ morphTargets' = [ t \in DOMAIN morphTargets |-> 0 ]
  /\ UNCHANGED << frameCount, facialExpression, lipsyncVisemes, hasActiveLipsync,
                  appliedVisemes, selectVars, handlerVars, phase, avatarVars, optVars,
                  monitorVars, twinVars, chatVars, speechVars >>

Next == SimulateFrame \/ resetMorphTargets

Spec == Init /\ [][Next]_vars

----------------------------------------------------------------------------
(* Viseme selection: filter by threshold, sort by descending score, keep   *)
(* the first MAX_BLEND_VISEMES                                             *)

RECURSIVE FilterAboveThreshold(_, _)
FilterAboveThreshold(entries, i) ==
  IF i > Len(entries)
    THEN << >>
    ELSE IF entries[i].value > MIN_THRESHOLD
      THEN << entries[i] >> \o FilterAboveThreshold(entries, i + 1)
      ELSE FilterAboveThreshold(entries, i + 1)

\* e goes behind every entry that does not compare after it: (b - a) <= 0
RECURSIVE InsertDescending(_, _)
InsertDescending(sorted, e) ==
  IF sorted = << >>
    THEN << e >>
    ELSE IF Head(sorted).value >= e.value
      THEN << Head(sorted) >> \o InsertDescending(Tail(sorted), e)
      ELSE << e >> \o sorted

\* Array.prototype.sort with the comparator (a, b) => b - a (a stable sort)
RECURSIVE SortDescending(_, _)
SortDescending(entries, n) ==
  IF n = 0
    THEN << >>
    ELSE InsertDescending(SortDescending(entries, n - 1), entries[n])

slice(entries, n) == SubSeq(entries, 1, Min(n, Len(entries)))

\* mutant: the sort step is left out
selectActiveVisemesUnsorted(scores) ==
  slice(FilterAboveThreshold(scores, 1), MAX_BLEND_VISEMES)

selectActiveVisemes(scores) ==
  LET above == FilterAboveThreshold(scores, 1)
  IN slice(SortDescending(above, Len(above)), MAX_BLEND_VISEMES)

SelectKeys == { "viseme_AA", "viseme_E", "viseme_I", "viseme_O" }

SelectScores ==
  { Hundredths(1), Hundredths(2), Hundredths(5), Hundredths(20),
    Hundredths(40), Hundredths(80) }

\* Object.entries of a score object: distinct keys, in insertion order
ScoreObjects ==
  UNION { { s \in [ 1..n -> [ viseme : SelectKeys, value : SelectScores ] ] :
              \A i, j \in 1..n : i # j => s[i].viseme # s[j].viseme } :
          n \in 0..MaxSampleLen }

InitSelect ==
  /\ sample \in ScoreObjects
  /\ selected = << >>
  /\ phase = "select"
  /\ NoFrames
  /\ NoSpeechInput
  /\ IdleChat
  /\ NoTwin
  /\ IdleMonitor
  /\ IdleHandler
  /\ browserSupported = TRUE
  /\ fallbackMode = FALSE
  /\ lipsyncError = NullMessage
  /\ retryCount = 0
  /\ lipsyncRef = FALSE
  /\ retryTimer = NoTimer
  /\ fallbackTimer = 0
  /\ audio = NoAudio
  /\ blink = 0
  /\ analyzerInvoked = FALSE
  /\ frameReturned = TRUE
  /\ visemeSource = "none"
  /\ errorKind = Null
  /\ loggedErrors = 0
  /\ everUnsupported = FALSE
  /\ constructions = 0
  /\ IdleOptimizer

SelectVisemes ==
  /\ phase = "select"
  /\ selected' = selectActiveVisemes(sample)
  /\ phase' = "selected"
  /\ UNCHANGED << sample, blendVars, avatarVars, optVars, handlerVars,
                  monitorVars, twinVars, chatVars, speechVars >>

NextSelect == SelectVisemes

SpecSelect == InitSelect /\ [][NextSelect]_vars

----------------------------------------------------------------------------
(* Claims about the blending engine *)

\* C1: after any sequence of frame updates, with any expression profile and
\* any viseme scores (also scores above 1 or below 0), every blend-target
\* intensity lies in [0, 1].
C1_IntensityInUnitRange ==
  \A t \in DOMAIN morphTargets :
    morphTargets[t] >= 0 /\ morphTargets[t] <= SCALE

\* a frame that received a score above 1 and a score below 0 has been blended
C1_Witness ==
  /\ frameCount = MaxFrames
  /\ hasActiveLipsync
  /\ lipsyncVisemes # NoVisemes
  /\ \E i \in DOMAIN lipsyncVisemes : lipsyncVisemes[i].value > SCALE
  /\ \E i \in DOMAIN lipsyncVisemes : lipsyncVisemes[i].value < 0
  /\ morphTargets["viseme_AA"] > Hundredths(50)

\* the score the sample gives to a morph target that the frame applied
AppliedAboveThreshold(t) ==
  \E i \in DOMAIN lipsyncVisemes :
    /\ MapViseme(lipsyncVisemes[i].viseme) = t
    /\ lipsyncVisemes[i].value > MIN_THRESHOLD

\* C2: in every frame the applied visemes number at most maxBlendCount and
\* each has a raw score strictly above minThreshold.
C2_AtMostMaxBlendApplied ==
  /\ Cardinality(appliedVisemes) <= MAX_BLEND_VISEMES
  /\ \A t \in appliedVisemes : AppliedAboveThreshold(t)

\* C3: the selection returns exactly the entries with score > minThreshold,
\* in descending score order, cut to the first maxBlendCount; every selected
\* score is >= every above-threshold score left out; the sample
\* {AA:0.8, E:0.4, I:0.2, O:0.05} gives [AA, E, I].
C3_SelectionIsTopScores ==
  phase = "selected" =>
    LET above == { i \in DOMAIN sample : sample[i].value > MIN_THRESHOLD }
        chosen == { selected[i] : i \in DOMAIN selected }
    IN /\ Len(selected) = Min(MAX_BLEND_VISEMES, Cardinality(above))
       /\ Cardinality(chosen) = Len(selected)
       /\ \A e \in chosen : \E i \in above : sample[i] = e
       /\ \A i, j \in DOMAIN selected :
            i < j => selected[i].value >= selected[j].value
       /\ \A e \in chosen : \A i \in above :
            sample[i] \notin chosen => e.value >= sample[i].value
       /\ sample = << Entry("viseme_AA", Hundredths(80)),
                      Entry("viseme_E", Hundredths(40)),
                      Entry("viseme_I", Hundredths(20)),
                      Entry("viseme_O", Hundredths(5)) >>
            => selected = << Entry("viseme_AA", Hundredths(80)),
                             Entry("viseme_E", Hundredths(40)),
                             Entry("viseme_I", Hundredths(20)) >>

\* a selection that had to reorder and to cut: four scores above the
\* threshold, given in ascending order
C3_Witness ==
  /\ phase = "selected"
  /\ sample = << Entry("viseme_O", Hundredths(5)),
                 Entry("viseme_I", Hundredths(20)),
                 Entry("viseme_E", Hundredths(40)),
                 Entry("viseme_AA", Hundredths(80)) >>
  /\ selected = << Entry("viseme_AA", Hundredths(80)),
                   Entry("viseme_E", Hundredths(40)),
                   Entry("viseme_I", Hundredths(20)) >>

\* the targets named by the expression profile of the last frame
ProfileTargets(expression) ==
  IF expression # Null /\ expression \in DOMAIN facialExpressions
    THEN DOMAIN facialExpressions[expression]
    ELSE {}

\* C4: in every frame each viseme target that is not selected that frame and
\* whose intensity is non-zero is moved toward zero; none holds its previous
\* value.  (Targets that the frame's expression profile names are left out:
\* the expression step drives them as well.)
C4_UnselectedVisemesDecay ==
  [][ frameCount' = frameCount + 1 =>
        \A t \in VisemeTargets :
          ( /\ t \notin appliedVisemes'
            /\ t \notin ProfileTargets(facialExpression')
            /\ morphTargets[t] > 0 )
          => morphTargets'[t] < morphTargets[t] ]_vars


----------------------------------------------------------------------------
(* Strings of utils/lipsyncErrorHandler.js, as sequences of characters     *)

Lower(c) ==
  CASE c = "A" -> "a" [] c = "B" -> "b" [] c = "C" -> "c" [] c = "D" -> "d"
    [] c = "E" -> "e" [] c = "F" -> "f" [] c = "G" -> "g" [] c = "H" -> "h"
    [] c = "I" -> "i" [] c = "J" -> "j" [] c = "K" -> "k" [] c = "L" -> "l"
    [] c = "M" -> "m" [] c = "N" -> "n" [] c = "O" -> "o" [] c = "P" -> "p"
    [] c = "Q" -> "q" [] c = "R" -> "r" [] c = "S" -> "s" [] c = "T" -> "t"
    [] c = "U" -> "u" [] c = "V" -> "v" [] c = "W" -> "w" [] c = "X" -> "x"
    [] c = "Y" -> "y" [] c = "Z" -> "z" [] OTHER -> c

toLowerCase(s) == [ i \in DOMAIN s |-> Lower(s[i]) ]

includes(s, pattern) ==
  \E i \in 0..(Len(s) - Len(pattern)) :
    SubSeq(s, i + 1, i + Len(pattern)) = pattern

PatInvalidState ==
  << "i", "n", "v", "a", "l", "i", "d", "s", "t", "a", "t", "e" >>

PatContext ==
  << "c", "o", "n", "t", "e", "x", "t" >>

PatAudio ==
  << "a", "u", "d", "i", "o" >>

PatConnect ==
  << "c", "o", "n", "n", "e", "c", "t" >>

PatProcess ==
  << "p", "r", "o", "c", "e", "s", "s" >>

PatAnalyze ==
  << "a", "n", "a", "l", "y", "z", "e" >>

PatNotSupported ==
  << "n", "o", "t", " ", "s", "u", "p", "p", "o", "r", "t", "e", "d" >>

PatUnavailable ==
  << "u", "n", "a", "v", "a", "i", "l", "a", "b", "l", "e" >>

PatInit ==
  << "i", "n", "i", "t" >>

PatConstructor ==
  << "c", "o", "n", "s", "t", "r", "u", "c", "t", "o", "r" >>

NameError ==
  << "E", "r", "r", "o", "r" >>

NameInvalidStateError ==
  << "I", "n", "v", "a", "l", "i", "d", "S", "t", "a", "t", "e", "E", "r",
     "r", "o", "r" >>

MsgTemporaryProcessingError ==
  << "T", "e", "m", "p", "o", "r", "a", "r", "y", " ", "p", "r", "o", "c",
     "e", "s", "s", "i", "n", "g", " ", "e", "r", "r", "o", "r" >>

MsgFeatureNotSupported ==
  << "F", "e", "a", "t", "u", "r", "e", " ", "n", "o", "t", " ", "s", "u",
     "p", "p", "o", "r", "t", "e", "d", " ", "i", "n", " ", "t", "h", "i",
     "s", " ", "b", "r", "o", "w", "s", "e", "r" >>

MsgFailedToConnect ==
  << "F", "a", "i", "l", "e", "d", " ", "t", "o", " ", "c", "o", "n", "n",
     "e", "c", "t", " ", "a", "u", "d", "i", "o", " ", "s", "o", "u", "r",
     "c", "e" >>

MsgLipsyncInitializationFailed ==
  << "L", "i", "p", "s", "y", "n", "c", " ", "i", "n", "i", "t", "i", "a",
     "l", "i", "z", "a", "t", "i", "o", "n", " ", "f", "a", "i", "l", "e",
     "d" >>

MsgAudioContextInitializationFailed ==
  << "A", "u", "d", "i", "o", "C", "o", "n", "t", "e", "x", "t", " ", "i",
     "n", "i", "t", "i", "a", "l", "i", "z", "a", "t", "i", "o", "n", " ",
     "f", "a", "i", "l", "e", "d" >>

MsgSomeRandomError ==
  << "S", "o", "m", "e", " ", "r", "a", "n", "d", "o", "m", " ", "e", "r",
     "r", "o", "r" >>

MsgWebAudioNotSupported ==
  << "W", "e", "b", "A", "u", "d", "i", "o", " ", "n", "o", "t", " ", "s",
     "u", "p", "p", "o", "r", "t", "e", "d" >>

MsgServiceUnavailable ==
  << "S", "e", "r", "v", "i", "c", "e", " ", "u", "n", "a", "v", "a", "i",
     "l", "a", "b", "l", "e" >>

MsgEmpty == << >>

\* a message or name property whose value is not a string (a number)
NumberValue == << "number" >>

----------------------------------------------------------------------------
(* utils/lipsyncErrorHandler.js: error kinds, classifier, recovery table   *)

INITIALIZATION_FAILED == "initialization_failed"

AUDIO_CONNECTION_FAILED == "audio_connection_failed"

PROCESSING_ERROR == "processing_error"

BROWSER_UNSUPPORTED == "browser_unsupported"

CONTEXT_ERROR == "context_error"

UNKNOWN_ERROR == "unknown_error"

LIPSYNC_ERROR_TYPES ==
  { INITIALIZATION_FAILED, AUDIO_CONNECTION_FAILED, PROCESSING_ERROR,
    BROWSER_UNSUPPORTED, CONTEXT_ERROR, UNKNOWN_ERROR }

\* a thrown value: an object with a name and a message (NullMessage where
\* the property is missing), or a falsy value such as null
ErrorObject(name, message) ==
  [ falsy |-> FALSE, name |-> name, message |-> message ]

\* the TypeError of calling toLowerCase on a value that has no such method
TypeErrorThrown == "TypeError"

\* mutant: the audio/connect rule is tried before the context rule
categorizeErrorAudioFirst(error) ==
  IF error.falsy
    THEN UNKNOWN_ERROR
    ELSE IF error.message = NumberValue \/ error.name = NumberValue
      THEN TypeErrorThrown
    ELSE LET message == IF error.message = NullMessage THEN << >>
                        ELSE toLowerCase(error.message)
             name == IF error.name = NullMessage THEN << >>
                     ELSE toLowerCase(error.name)
         IN IF includes(message, PatAudio) \/ includes(message, PatConnect)
              THEN AUDIO_CONNECTION_FAILED
            ELSE IF includes(name, PatInvalidState) \/ includes(message, PatContext)
              THEN CONTEXT_ERROR
            ELSE IF includes(message, PatProcess) \/ includes(message, PatAnalyze)
              THEN PROCESSING_ERROR
            ELSE IF includes(message, PatNotSupported)
                    \/ includes(message, PatUnavailable)
              THEN BROWSER_UNSUPPORTED
            ELSE IF includes(message, PatInit) \/ includes(message, PatConstructor)
              THEN INITIALIZATION_FAILED
            ELSE UNKNOWN_ERROR

\* categorizeError: the kind returned, or TypeErrorThrown when
\* error.message?.toLowerCase() or error.name?.toLowerCase() is called on a
\* value that is neither missing nor a string
categorizeError(error) ==
  IF error.falsy
    THEN UNKNOWN_ERROR
    ELSE IF error.message = NumberValue \/ error.name = NumberValue
      THEN TypeErrorThrown
    ELSE LET message == IF error.message = NullMessage THEN << >>
                        ELSE toLowerCase(error.message)
             name == IF error.name = NullMessage THEN << >>
                     ELSE toLowerCase(error.name)
         IN IF includes(name, PatInvalidState) \/ includes(message, PatContext)
              THEN CONTEXT_ERROR
            ELSE IF includes(message, PatAudio) \/ includes(message, PatConnect)
              THEN AUDIO_CONNECTION_FAILED
            ELSE IF includes(message, PatProcess) \/ includes(message, PatAnalyze)
              THEN PROCESSING_ERROR
            ELSE IF includes(message, PatNotSupported)
                    \/ includes(message, PatUnavailable)
              THEN BROWSER_UNSUPPORTED
            ELSE IF includes(message, PatInit) \/ includes(message, PatConstructor)
              THEN INITIALIZATION_FAILED
            ELSE UNKNOWN_ERROR

Strategy(delay, maxRetries, fallbackConfig) ==
  [ delay |-> delay, maxRetries |-> maxRetries, fallbackConfig |-> fallbackConfig ]

LipsyncConfig(fftSize, historySize) ==
  [ fftSize |-> fftSize, historySize |-> historySize ]

\* fallbackConfig: null
NoFallbackConfig == LipsyncConfig(0, 0)

\* mutant: a kind outside the first five rows is not retried
getRecoveryStrategyGivingUp(errorType) ==
  CASE errorType = INITIALIZATION_FAILED -> Strategy(2000, 3, LipsyncConfig(512, 4))
    [] errorType = AUDIO_CONNECTION_FAILED -> Strategy(1000, 2, NoFallbackConfig)
    [] errorType = PROCESSING_ERROR -> Strategy(500, 1, NoFallbackConfig)
    [] errorType = CONTEXT_ERROR -> Strategy(5000, 2, LipsyncConfig(256, 2))
    [] errorType = BROWSER_UNSUPPORTED -> Strategy(0, 0, NoFallbackConfig)
    [] OTHER -> Strategy(0, 0, NoFallbackConfig)

\* getRecoveryStrategy: strategies[errorType] || strategies[UNKNOWN_ERROR]
getRecoveryStrategy(errorType) ==
  CASE errorType = INITIALIZATION_FAILED -> Strategy(2000, 3, LipsyncConfig(512, 4))
    [] errorType = AUDIO_CONNECTION_FAILED -> Strategy(1000, 2, NoFallbackConfig)
    [] errorType = PROCESSING_ERROR -> Strategy(500, 1, NoFallbackConfig)
    [] errorType = CONTEXT_ERROR -> Strategy(5000, 2, LipsyncConfig(256, 2))
    [] errorType = BROWSER_UNSUPPORTED -> Strategy(0, 0, NoFallbackConfig)
    [] OTHER -> Strategy(3000, 1, LipsyncConfig(512, 4))

----------------------------------------------------------------------------
(* generateFallbackLipsync *)

\* an audio element: flags, and times in tenths of a second (0 stands for
\* a duration that is not known)
AudioElement(paused, ended, currentTime, duration) ==
  [ present |-> TRUE, paused |-> paused, ended |-> ended, currentTime |-> currentTime,
    duration |-> duration ]

\* Math.sin(currentTime * 8) at the playback times of the model
MathSin8(currentTime) ==
  CASE currentTime = 0 -> 0
    [] currentTime = 5 -> 0 - 75680250
    [] currentTime = 10 -> 98935825
    [] currentTime = 25 -> 91294525
    [] currentTime = 40 -> 55142668
    [] OTHER -> 74511316

\* mutant: playback past the end of the audio still yields visemes
generateFallbackLipsyncPastEnd(a, intensity) ==
  IF ~a.present \/ a.paused \/ a.ended
    THEN << >>
    ELSE IF a.duration = 0
      THEN << >>
      ELSE LET timeBasedIntensity ==
                 (MathSin8(a.currentTime) * intensity) \div 10
                   + (SCALE * intensity) \div 10
               clampedIntensity == Max(0, Min(timeBasedIntensity, SCALE))
           IN << Entry("viseme_AA", (clampedIntensity * 7) \div 10),
                 Entry("viseme_E", (clampedIntensity * 3) \div 10),
                 Entry("viseme_I", (clampedIntensity * 2) \div 10),
                 Entry("viseme_O", (clampedIntensity * 4) \div 10) >>

generateFallbackLipsync(a, intensity) ==
  IF ~a.present \/ a.paused \/ a.ended
    THEN << >>
    ELSE IF a.duration = 0 \/ a.currentTime >= a.duration
      THEN << >>
      ELSE LET timeBasedIntensity ==
                 (MathSin8(a.currentTime) * intensity) \div 10
                   + (SCALE * intensity) \div 10
               clampedIntensity == Max(0, Min(timeBasedIntensity, SCALE))
           IN << Entry("viseme_AA", (clampedIntensity * 7) \div 10),
                 Entry("viseme_E", (clampedIntensity * 3) \div 10),
                 Entry("viseme_I", (clampedIntensity * 2) \div 10),
                 Entry("viseme_O", (clampedIntensity * 4) \div 10) >>

----------------------------------------------------------------------------
(* The Avatar component: lipsync state, initialisation, retry, frames      *)

MaxAvatarFrames == 2

FALLBACK_INTENSITY == 5

FALLBACK_LERP_SPEED == 2

\* errors the Lipsync constructor may throw
ConstructorErrors ==
  { ErrorObject(NameError, MsgLipsyncInitializationFailed),
    ErrorObject(NameError, MsgFeatureNotSupported),
    ErrorObject(NameError, MsgFailedToConnect),
    ErrorObject(NameInvalidStateError, MsgAudioContextInitializationFailed) }

\* errors processAudio and computeVisemeScores may throw
AnalyzerErrors ==
  { ErrorObject(NameError, MsgTemporaryProcessingError),
    ErrorObject(NameError, MsgFeatureNotSupported),
    ErrorObject(NameError, MsgSomeRandomError) }

\* what computeVisemeScores returns when the analyzer does not throw
AnalyzerScores ==
  { << Entry("viseme_AA", Hundredths(80)), Entry("viseme_E", Hundredths(40)),
       Entry("viseme_I", Hundredths(20)), Entry("viseme_sil", Hundredths(10)) >> }

\* the outcome of a call: it returned a value or threw an error
NoError == NullError

Returned(scores) == [ threw |-> FALSE, error |-> NoError, scores |-> scores ]

Threw(error) == [ threw |-> TRUE, error |-> error, scores |-> << >> ]

ConstructorOutcomes ==
  { Returned(<< >>) } \cup { Threw(e) : e \in ConstructorErrors }

AnalyzerOutcomes ==
  { Returned(s) : s \in AnalyzerScores } \cup { Threw(e) : e \in AnalyzerErrors }

AudioStates ==
  { NoAudio,
    AudioElement(FALSE, FALSE, 10, 50),
    AudioElement(TRUE, FALSE, 10, 50),
    AudioElement(TRUE, TRUE, 50, 50) }

AvatarExpressions == { "smile", "sad" }

BlinkValues == { 0, SCALE }

\* mutant: a retry is scheduled whatever the retry counter is
InitializeLipsyncAlwaysRetry(outcome, count) ==
  /\ constructions' = constructions + 1
  /\ IF ~outcome.threw
       THEN /\ lipsyncRef' = TRUE
            /\ lipsyncError' = NullMessage
            /\ fallbackMode' = FALSE
            /\ retryTimer' = NoTimer
            /\ UNCHANGED << errorKind, loggedErrors, everUnsupported >>
       ELSE LET errorType == categorizeError(outcome.error)
                strategy == getRecoveryStrategy(errorType)
            IN /\ loggedErrors' = loggedErrors + 1
               /\ lipsyncError' = outcome.error.message
               /\ fallbackMode' = TRUE
               /\ errorKind' = errorType
               /\ everUnsupported' =
                    (everUnsupported \/ errorType = BROWSER_UNSUPPORTED)
               /\ retryTimer' =
                    [ pending |-> TRUE, kind |-> errorType,
                      delay |-> strategy.delay ]
               /\ UNCHANGED lipsyncRef

\* the try / catch of the initialisation effect; outcome tells whether the
\* Lipsync constructor returned or threw (a timer that ran this attempt
\* is spent, so none is pending unless the catch schedules one)
InitializeLipsync(outcome, count) ==
  /\ constructions' = constructions + 1
  /\ IF ~outcome.threw
       THEN /\ lipsyncRef' = TRUE
            /\ lipsyncError' = NullMessage
            /\ fallbackMode' = FALSE
            /\ retryTimer' = NoTimer
            /\ UNCHANGED << errorKind, loggedErrors, everUnsupported >>
       ELSE LET errorType == categorizeError(outcome.error)
                strategy == getRecoveryStrategy(errorType)
            IN /\ loggedErrors' = loggedErrors + 1
               /\ lipsyncError' = outcome.error.message
               /\ fallbackMode' = TRUE
               /\ errorKind' = errorType
               /\ everUnsupported' =
                    (everUnsupported \/ errorType = BROWSER_UNSUPPORTED)
               /\ retryTimer' =
                    IF count < strategy.maxRetries
                      THEN [ pending |-> TRUE, kind |-> errorType,
                             delay |-> strategy.delay ]
                      ELSE NoTimer
               /\ UNCHANGED lipsyncRef

\* the initialisation effect, run once when the component mounts
MountEffect ==
  /\ phase = "unmounted"
  /\ phase' = "mounted"
  /\ \E supported \in BOOLEAN, outcome \in ConstructorOutcomes :
       /\ browserSupported' = supported
       /\ IF ~supported
            THEN /\ fallbackMode' = TRUE
                 /\ everUnsupported' = TRUE
                 /\ UNCHANGED << lipsyncError, lipsyncRef, retryTimer, errorKind,
                                 loggedErrors, constructions >>
            ELSE InitializeLipsync(outcome, retryCount)
  /\ UNCHANGED << retryCount, fallbackTimer, audio, blink, analyzerInvoked,
                  frameReturned, visemeSource, blendVars, selectVars, handlerVars, optVars,
                  monitorVars, twinVars, chatVars, speechVars >>

\* the retry the timer runs: a new initialisation attempt
RetryLogic(outcome, count) == InitializeLipsync(outcome, count)

\* the retry timer expires
RetryTimerFires ==
  /\ phase = "mounted"
  /\ retryTimer.pending
  /\ retryCount' = retryCount + 1
  /\ \E outcome \in ConstructorOutcomes :
       RetryLogic(outcome, retryCount + 1)
  /\ UNCHANGED << phase, browserSupported, fallbackTimer, audio, blink,
                  analyzerInvoked, frameReturned, visemeSource, blendVars,
                  selectVars, handlerVars, optVars, monitorVars, twinVars,
                  chatVars, speechVars >>

\* the timer of a temporary fallback expires
FallbackTimerFires ==
  /\ phase = "mounted"
  /\ fallbackTimer > 0
  /\ fallbackTimer' = fallbackTimer - 1
  /\ fallbackMode' = FALSE
  /\ lipsyncError' = NullMessage
  /\ UNCHANGED << phase, browserSupported, retryCount, lipsyncRef, retryTimer,
                  audio, blink, analyzerInvoked, frameReturned, errorKind,
                  loggedErrors, everUnsupported, constructions, visemeSource,
                  blendVars, selectVars, handlerVars, optVars, monitorVars,
                  twinVars, chatVars, speechVars >>

\* which branch of the frame's audio processing runs
FrameBranch(a) ==
  IF lipsyncRef /\ a.present /\ ~fallbackMode
    THEN "analyzer"
    ELSE IF fallbackMode /\ a.present THEN "fallback" ELSE "none"

\* the viseme values the frame applies, NoVisemes when it applies none
FrameVisemes(a, outcome) ==
  CASE FrameBranch(a) = "analyzer" ->
         IF outcome.threw THEN NoVisemes ELSE outcome.scores
    [] FrameBranch(a) = "fallback" ->
         generateFallbackLipsync(a, FALLBACK_INTENSITY)
    [] OTHER -> NoVisemes

FrameLerpSpeed(a) ==
  IF FrameBranch(a) = "fallback" THEN FALLBACK_LERP_SPEED ELSE ACTIVE_LERP_SPEED

\* mutant: the analyzer calls are not wrapped in try / catch
AudioProcessingUncaught(a, outcome) ==
  /\ visemeSource' = FrameBranch(a)
  /\ analyzerInvoked' = (FrameBranch(a) = "analyzer")
  /\ frameReturned' = ~(FrameBranch(a) = "analyzer" /\ outcome.threw)
  /\ UNCHANGED << loggedErrors, lipsyncError, errorKind, everUnsupported,
                  fallbackMode, fallbackTimer, monitorVars, twinVars,
                  chatVars, speechVars >>

\* mutant: a processing error enables fallback mode without the timer that
\* ends it
AudioProcessingWithoutTimer(a, outcome) ==
  /\ visemeSource' = FrameBranch(a)
  /\ analyzerInvoked' = (FrameBranch(a) = "analyzer")
  /\ frameReturned' = TRUE
  /\ UNCHANGED fallbackTimer
  /\ IF FrameBranch(a) = "analyzer" /\ outcome.threw
       THEN LET errorType == categorizeError(outcome.error)
            IN /\ loggedErrors' = loggedErrors + 1
               /\ lipsyncError' = outcome.error.message
               /\ errorKind' = errorType
               /\ everUnsupported' =
                    (everUnsupported \/ errorType = BROWSER_UNSUPPORTED)
               /\ fallbackMode' =
                    (fallbackMode \/ errorType = PROCESSING_ERROR)
       ELSE UNCHANGED << loggedErrors, lipsyncError, errorKind, everUnsupported,
                         fallbackMode >>

\* "Audio Processing with Error Handling": the state the frame changes
AudioProcessing(a, outcome) ==
  /\ visemeSource' = FrameBranch(a)
  /\ analyzerInvoked' = (FrameBranch(a) = "analyzer")
  /\ frameReturned' = TRUE
  /\ IF FrameBranch(a) = "analyzer" /\ outcome.threw
       THEN LET errorType == categorizeError(outcome.error)
            IN /\ loggedErrors' = loggedErrors + 1
               /\ lipsyncError' = outcome.error.message
               /\ errorKind' = errorType
               /\ everUnsupported' =
                    (everUnsupported \/ errorType = BROWSER_UNSUPPORTED)
               /\ IF errorType = PROCESSING_ERROR
                    THEN /\ fallbackMode' = TRUE
                         /\ fallbackTimer' = fallbackTimer + 1
                    ELSE UNCHANGED << fallbackMode, fallbackTimer >>
       ELSE UNCHANGED << loggedErrors, lipsyncError, errorKind, everUnsupported,
                         fallbackMode, fallbackTimer >>

\* the blink step: both blink targets take the blink value
ApplyBlink(m, b) ==
  [ t \in DOMAIN m |-> IF t \in BlinkTargets THEN clampedValue(b) ELSE m[t] ]

\* one call of the per-frame callback
UseFrame ==
  /\ phase = "mounted"
  /\ frameCount < MaxAvatarFrames
  /\ frameCount' = frameCount + 1
  /\ \E a \in AudioStates, e \in AvatarExpressions, b \in BlinkValues :
     \E outcome \in IF FrameBranch(a) = "analyzer"
                      THEN AnalyzerOutcomes ELSE { Returned(<< >>) } :
       LET visemes == FrameVisemes(a, outcome)
       IN /\ AudioProcessing(a, outcome)
          /\ audio' = a
          /\ blink' = b
          /\ facialExpression' = e
          /\ lipsyncVisemes' = visemes
          /\ hasActiveLipsync' = (visemes # NoVisemes)
          /\ appliedVisemes' = AppliedTargets(visemes, visemes # NoVisemes)
          /\ morphTargets' =
               ApplyBlink(BlendFrame(morphTargets, e, visemes, visemes # NoVisemes,
                                     FrameLerpSpeed(a)), b)
  /\ UNCHANGED << phase, browserSupported, retryCount, lipsyncRef, retryTimer,
                  constructions, selectVars, handlerVars, optVars,
                  monitorVars, twinVars, chatVars, speechVars >>

InitAvatar ==
  /\ NoFrames
  /\ NoSpeechInput
  /\ IdleChat
  /\ NoTwin
  /\ IdleMonitor
  /\ IdleHandler
  /\ NoSelection
  /\ phase = "unmounted"
  /\ browserSupported = TRUE
  /\ fallbackMode = FALSE
  /\ lipsyncError = NullMessage
  /\ retryCount = 0
  /\ lipsyncRef = FALSE
  /\ retryTimer = NoTimer
  /\ fallbackTimer = 0
  /\ audio = NoAudio
  /\ blink = 0
  /\ analyzerInvoked = FALSE
  /\ frameReturned = TRUE
  /\ visemeSource = "none"
  /\ errorKind = Null
  /\ loggedErrors = 0
  /\ everUnsupported = FALSE
  /\ constructions = 0
  /\ IdleOptimizer

NextAvatar ==
  \/ MountEffect
  \/ RetryTimerFires
  \/ FallbackTimerFires
  \/ UseFrame

SpecAvatar == InitAvatar /\ [][NextAvatar]_vars


----------------------------------------------------------------------------
(* Claims about the Avatar component *)

\* a step of the per-frame callback
IsFrame == frameCount' = frameCount + 1

C6_FallbackKeepsExpressionAndBlink ==
  [][(IsFrame /\ fallbackMode) =>
       /\ \A t \in ExpressionTargets :
            morphTargets'[t] =
              IF t \in ProfileTargets(facialExpression')
                THEN lerp(morphTargets[t],
                          clampedValue(facialExpressions[facialExpression'][t]),
                          EXPRESSION_LERP_SPEED)
                ELSE morphTargets[t]
       /\ \A t \in BlinkTargets : morphTargets'[t] = clampedValue(blink')]_vars

C6_Witness ==
  /\ frameCount > 0
  /\ fallbackMode
  /\ visemeSource = "fallback"
  /\ lipsyncVisemes # << >>
  /\ facialExpression = "smile"
  /\ morphTargets["mouthSmileLeft"] > 0
  /\ blink = SCALE
  /\ morphTargets["eyeBlinkLeft"] = SCALE

maxRetriesOf(kind) == getRecoveryStrategy(kind).maxRetries

C8_UnsupportedIsPermanent ==
  [][/\ everUnsupported' => fallbackMode'
     /\ everUnsupported =>
          /\ constructions' = constructions
          /\ IsFrame => ~analyzerInvoked']_vars

\* the audio source is there and playing
ActivelyPlaying(a) == a.present /\ ~a.paused /\ ~a.ended

\* C9: in a frame whose audio source is absent, paused or ended the analyzer
\* is not invoked and the fallback synthesizer yields no visemes.
C9_NoProcessingUnlessPlaying ==
  [][(IsFrame /\ ~ActivelyPlaying(audio')) =>
       /\ ~analyzerInvoked'
       /\ visemeSource' = "fallback" => lipsyncVisemes' = << >>]_vars


----------------------------------------------------------------------------
(* AdaptivePerformanceOptimizer *)

MaxSnapshots == 4

maxAdaptations == 5

HISTORY_LIMIT == 10

RECENT_COUNT == 3

Stats(averageProcessingTime, averageFPS) ==
  [ averageProcessingTime |-> averageProcessingTime, averageFPS |-> averageFPS ]

\* the stats snapshots handed to analyzePerformance
StatsSnapshots ==
  { Stats(Hundredths(50), 60), Stats(Hundredths(100), 48),
    Stats(Hundredths(200), 60), Stats(Hundredths(50), 30) }

RECURSIVE SumOf(_, _)
SumOf(s, field) ==
  IF s = << >> THEN 0 ELSE Head(s)[field] + SumOf(Tail(s), field)

\* mutant: the averages are taken over the whole history
recentStatsWholeHistory(history) == history

\* performanceHistory.slice(-3)
recentStats(history) ==
  SubSeq(history, Max(1, Len(history) - RECENT_COUNT + 1), Len(history))

\* mutant: the limits themselves count as poor performance
shouldAdaptAtLimit(count, history) ==
  IF count >= maxAdaptations
    THEN FALSE
    ELSE IF Len(history) < RECENT_COUNT
      THEN FALSE
      ELSE LET recent == recentStats(history)
           IN \/ SumOf(recent, "averageProcessingTime")
                   >= MAX_PROCESSING_TIME * Len(recent)
              \/ SumOf(recent, "averageFPS") * 10
                   <= TARGET_FPS * 8 * Len(recent)

\* mutant: no cap on the number of adaptations
shouldAdaptUncapped(count, history) ==
  IF Len(history) < RECENT_COUNT
    THEN FALSE
    ELSE LET recent == recentStats(history)
         IN \/ SumOf(recent, "averageProcessingTime")
                 > MAX_PROCESSING_TIME * Len(recent)
            \/ SumOf(recent, "averageFPS") * 10
                 < TARGET_FPS * 8 * Len(recent)

\* shouldAdapt; the two averages are compared as sums against the limit
\* times the number of snapshots
shouldAdapt(count, history) ==
  IF count >= maxAdaptations
    THEN FALSE
    ELSE IF Len(history) < RECENT_COUNT
      THEN FALSE
      ELSE LET recent == recentStats(history)
           IN \/ SumOf(recent, "averageProcessingTime")
                   > MAX_PROCESSING_TIME * Len(recent)
              \/ SumOf(recent, "averageFPS") * 10
                   < TARGET_FPS * 8 * Len(recent)

\* the fixed minimal configuration of the last rung
MinimalConfig ==
  Config(256, 2, Smoothing(Tenths(1), Tenths(1), Tenths(1), 1, Tenths(1)))

\* mutant: the counter wraps around at the cap
NextAdaptationCountWrapping(count) == (count + 1) % maxAdaptations

\* this.adaptationCount++
NextAdaptationCount(count) == count + 1

\* mutant: the floor of the second rung is the default size, not 512
AdaptedConfigHighFloor(config, count) ==
  CASE count = 1 ->
         [ config EXCEPT !.historySize = Max(4, config.historySize - 2) ]
    [] count = 2 ->
         [ config EXCEPT !.fftSize = Max(1024, config.fftSize \div 2) ]
    [] count = 3 ->
         [ config EXCEPT
             !.smoothing.MIN_THRESHOLD = (config.smoothing.MIN_THRESHOLD * 3) \div 2,
             !.smoothing.MAX_BLEND_VISEMES =
               Max(1, config.smoothing.MAX_BLEND_VISEMES - 1) ]
    [] count = 4 ->
         [ config EXCEPT
             !.smoothing.ACTIVE_LERP_SPEED =
               (config.smoothing.ACTIVE_LERP_SPEED * 8) \div 10,
             !.smoothing.NEUTRAL_LERP_SPEED =
               (config.smoothing.NEUTRAL_LERP_SPEED * 8) \div 10 ]
    [] OTHER -> MinimalConfig

\* the configuration after rung number count of the degradation ladder
AdaptedConfig(config, count) ==
  CASE count = 1 ->
         [ config EXCEPT !.historySize = Max(4, config.historySize - 2) ]
    [] count = 2 ->
         [ config EXCEPT !.fftSize = Max(512, config.fftSize \div 2) ]
    [] count = 3 ->
         [ config EXCEPT
             !.smoothing.MIN_THRESHOLD = (config.smoothing.MIN_THRESHOLD * 3) \div 2,
             !.smoothing.MAX_BLEND_VISEMES =
               Max(1, config.smoothing.MAX_BLEND_VISEMES - 1) ]
    [] count = 4 ->
         [ config EXCEPT
             !.smoothing.ACTIVE_LERP_SPEED =
               (config.smoothing.ACTIVE_LERP_SPEED * 8) \div 10,
             !.smoothing.NEUTRAL_LERP_SPEED =
               (config.smoothing.NEUTRAL_LERP_SPEED * 8) \div 10 ]
    [] OTHER -> MinimalConfig

\* constructor
InitOptimizer ==
  /\ browser \in Browsers
  /\ optimalConfig = OPTIMAL_LIPSYNC_CONFIG
  /\ currentConfig = detectBrowserAndOptimize(browser, OPTIMAL_LIPSYNC_CONFIG)
  /\ configIsOptimal = ReturnsOptimalObject(browser)
  /\ smoothingIsOptimal = TRUE
  /\ performanceHistory = << >>
  /\ adaptationCount = 0
  /\ snapshotsRecorded = 0
  /\ optCall = "none"
  /\ returnedConfig = currentConfig
  /\ adapted = FALSE
  /\ verdict = FALSE

analyzePerformance ==
  /\ snapshotsRecorded < snapshotBudget
  /\ snapshotsRecorded' = snapshotsRecorded + 1
  /\ \E stats \in statsPool :
       LET pushed == Append(performanceHistory, stats)
       IN performanceHistory' =
            IF Len(pushed) > HISTORY_LIMIT THEN Tail(pushed) ELSE pushed
  /\ optCall' = "analyzePerformance"
  /\ UNCHANGED << browser, optimalConfig, currentConfig, configIsOptimal,
                  smoothingIsOptimal, adaptationCount, returnedConfig,
                  adapted, verdict, statsPool, snapshotBudget, blendVars,
                  selectVars, handlerVars, phase, avatarVars, monitorVars,
                  twinVars, chatVars, speechVars >>

adaptConfiguration ==
  /\ optCall' = "adaptConfiguration"
  /\ IF ~shouldAdapt(adaptationCount, performanceHistory)
       THEN /\ returnedConfig' = currentConfig
            /\ adapted' = FALSE
            /\ UNCHANGED << optimalConfig, currentConfig, configIsOptimal,
                            smoothingIsOptimal, adaptationCount >>
       ELSE LET count == NextAdaptationCount(adaptationCount)
                degraded == AdaptedConfig(currentConfig, count)
            IN /\ adaptationCount' = count
               /\ adapted' = TRUE
               /\ currentConfig' = degraded
               /\ returnedConfig' = degraded
               /\ configIsOptimal' = (configIsOptimal /\ count < maxAdaptations)
               /\ smoothingIsOptimal' =
                    (smoothingIsOptimal /\ count < maxAdaptations)
               /\ optimalConfig' =
                    IF count >= maxAdaptations
                      THEN optimalConfig
                    ELSE IF configIsOptimal
                      THEN degraded
                    ELSE IF smoothingIsOptimal
                      THEN [ optimalConfig EXCEPT !.smoothing = degraded.smoothing ]
                    ELSE optimalConfig
  /\ UNCHANGED << browser, performanceHistory, snapshotsRecorded, verdict,
                  statsPool, snapshotBudget, blendVars, selectVars, handlerVars, phase,
                  avatarVars, monitorVars, twinVars, chatVars, speechVars >>

\* a call of shouldAdapt by the caller
ShouldAdaptCall ==
  /\ verdict' = shouldAdapt(adaptationCount, performanceHistory)
  /\ optCall' = "shouldAdapt"
  /\ UNCHANGED << browser, optimalConfig, currentConfig, configIsOptimal,
                  smoothingIsOptimal, performanceHistory, adaptationCount,
                  snapshotsRecorded, returnedConfig, adapted, statsPool,
                  snapshotBudget, blendVars, selectVars, handlerVars, phase, avatarVars,
                  monitorVars, twinVars, chatVars, speechVars >>

getOptimalConfiguration ==
  /\ returnedConfig' = currentConfig
  /\ optCall' = "getOptimalConfiguration"
  /\ UNCHANGED << browser, optimalConfig, currentConfig, configIsOptimal,
                  smoothingIsOptimal, performanceHistory, adaptationCount,
                  snapshotsRecorded, adapted, verdict, statsPool,
                  snapshotBudget, blendVars, selectVars, handlerVars, phase, avatarVars,
                  monitorVars, twinVars, chatVars, speechVars >>

reset ==
  /\ optCall # "none"
  /\ performanceHistory' = << >>
  /\ currentConfig' = detectBrowserAndOptimize(browser, optimalConfig)
  /\ configIsOptimal' = ReturnsOptimalObject(browser)
  /\ smoothingIsOptimal' = TRUE
  /\ adaptationCount' = 0
  /\ optCall' = "reset"
  /\ UNCHANGED << browser, optimalConfig, snapshotsRecorded, returnedConfig,
                  adapted, verdict, statsPool, snapshotBudget, blendVars,
                  selectVars, handlerVars, phase, avatarVars, monitorVars,
                  twinVars, chatVars, speechVars >>

InitOpt ==
  /\ NoFrames
  /\ NoSpeechInput
  /\ IdleChat
  /\ NoTwin
  /\ IdleMonitor
  /\ IdleHandler
  /\ NoSelection
  /\ IdleAvatar
  /\ InitOptimizer
  /\ statsPool = StatsSnapshots
  /\ snapshotBudget = MaxSnapshots

NextOpt ==
  \/ analyzePerformance
  \/ ShouldAdaptCall
  \/ adaptConfiguration
  \/ getOptimalConfiguration
  \/ reset

SpecOpt == InitOpt /\ [][NextOpt]_vars

\* three times the recent average processing time, and the recent average
\* frame rate, of a history of at least three snapshots
RecentTimeSum ==
  performanceHistory[Len(performanceHistory)].averageProcessingTime
    + performanceHistory[Len(performanceHistory) - 1].averageProcessingTime
    + performanceHistory[Len(performanceHistory) - 2].averageProcessingTime

RecentFPSSum ==
  performanceHistory[Len(performanceHistory)].averageFPS
    + performanceHistory[Len(performanceHistory) - 1].averageFPS
    + performanceHistory[Len(performanceHistory) - 2].averageFPS

\* at least three snapshots, and their average time above 1.0 ms or their
\* average frame rate below 48
PoorRecentPerformance ==
  /\ Len(performanceHistory) >= 3
  /\ \/ RecentTimeSum > 3 * Hundredths(100)
     \/ RecentFPSSum < 3 * 48

\* C10: a call of adaptConfiguration made with fewer than three snapshots, or
\* with a recent average at or within the limits (time <= 1.0 ms and frame
\* rate >= 48), changes neither the configuration nor the adaptation counter
\* and returns the current configuration.
C10_NoAdaptationWithoutPoorPerformance ==
  [][(optCall' = "adaptConfiguration" /\ ~PoorRecentPerformance) =>
       /\ currentConfig' = currentConfig
       /\ adaptationCount' = adaptationCount
       /\ optimalConfig' = optimalConfig
       /\ returnedConfig' = currentConfig]_vars

C10_Witness ==
  /\ optCall = "adaptConfiguration"
  /\ Len(performanceHistory) >= 3
  /\ RecentTimeSum = 3 * Hundredths(100)
  /\ RecentFPSSum = 3 * 48
  /\ adaptationCount = 0
  /\ returnedConfig = currentConfig
  /\ currentConfig = detectBrowserAndOptimize(browser, OPTIMAL_LIPSYNC_CONFIG)

\* C11: the adaptation counter never exceeds 5, and a call of
\* adaptConfiguration made with the counter at 5 changes neither the
\* configuration nor the counter and returns the current configuration,
\* however poor the recorded snapshots are.
C11_AdaptationsCapped ==
  [][/\ adaptationCount' <= 5
     /\ (optCall' = "adaptConfiguration" /\ adaptationCount = 5) =>
          /\ adaptationCount' = 5
          /\ currentConfig' = currentConfig
          /\ optimalConfig' = optimalConfig
          /\ returnedConfig' = currentConfig
          /\ ~adapted']_vars

C11_Witness ==
  /\ optCall = "adaptConfiguration"
  /\ adaptationCount = 5
  /\ ~adapted
  /\ PoorRecentPerformance
  /\ currentConfig = MinimalConfig
  /\ returnedConfig = MinimalConfig


\* an effective adaptation: a call of adaptConfiguration that advanced the counter
IsAdaptation == adaptationCount' # adaptationCount /\ optCall' = "adaptConfiguration"

\* rung k as the claim words it, from configuration c to configuration d
RungApplied(k, c, d) ==
  CASE k = 1 ->
         /\ d.historySize < c.historySize
         /\ d = [ c EXCEPT !.historySize = d.historySize ]
    [] k = 2 ->
         /\ d.fftSize * 2 = c.fftSize
         /\ d = [ c EXCEPT !.fftSize = d.fftSize ]
    [] k = 3 ->
         /\ d.smoothing.MIN_THRESHOLD > c.smoothing.MIN_THRESHOLD
         /\ d.smoothing.MAX_BLEND_VISEMES = c.smoothing.MAX_BLEND_VISEMES - 1
         /\ d = [ c EXCEPT !.smoothing.MIN_THRESHOLD = d.smoothing.MIN_THRESHOLD,
                           !.smoothing.MAX_BLEND_VISEMES =
                             d.smoothing.MAX_BLEND_VISEMES ]
    [] k = 4 ->
         /\ d.smoothing.ACTIVE_LERP_SPEED < c.smoothing.ACTIVE_LERP_SPEED
         /\ d.smoothing.NEUTRAL_LERP_SPEED < c.smoothing.NEUTRAL_LERP_SPEED
         /\ d = [ c EXCEPT !.smoothing.ACTIVE_LERP_SPEED =
                             d.smoothing.ACTIVE_LERP_SPEED,
                           !.smoothing.NEUTRAL_LERP_SPEED =
                             d.smoothing.NEUTRAL_LERP_SPEED ]
    [] k = 5 -> d = MinimalConfig
    [] OTHER -> FALSE

\* C12: the k-th effective adaptation advances the counter from k - 1 to k
\* and applies rung k and only rung k: 1 shrinks historySize, 2 halves
\* fftSize, 3 raises MIN_THRESHOLD and decrements MAX_BLEND_VISEMES, 4 scales
\* both lerp speeds down, 5 installs the minimal configuration; the other
\* fields keep their values.
C12_EachAdaptationAppliesItsRung ==
  [][IsAdaptation =>
       /\ adaptationCount' = adaptationCount + 1
       /\ RungApplied(adaptationCount', currentConfig, currentConfig')]_vars

----------------------------------------------------------------------------
(* The optimizer driven by analyzePerformance and adaptConfiguration only *)

NextAdapt ==
  \/ analyzePerformance
  \/ ShouldAdaptCall
  \/ adaptConfiguration
  \/ getOptimalConfiguration

SpecAdapt == InitOpt /\ [][NextAdapt]_vars

\* configuration d is no richer than configuration c
NotRicher(d, c) ==
  /\ d.fftSize <= c.fftSize
  /\ d.historySize <= c.historySize
  /\ d.smoothing.MAX_BLEND_VISEMES <= c.smoothing.MAX_BLEND_VISEMES
  /\ d.smoothing.ACTIVE_LERP_SPEED <= c.smoothing.ACTIVE_LERP_SPEED
  /\ d.smoothing.NEUTRAL_LERP_SPEED <= c.smoothing.NEUTRAL_LERP_SPEED
  /\ d.smoothing.MIN_THRESHOLD >= c.smoothing.MIN_THRESHOLD

\* C13: without a reset, each configuration the optimizer returns is no
\* richer than the one it returned before (or started with): fftSize,
\* historySize, MAX_BLEND_VISEMES and both lerp speeds do not increase and
\* MIN_THRESHOLD does not decrease.
C13_ConfigurationOnlyDegrades ==
  [][/\ NotRicher(returnedConfig', returnedConfig)
     /\ NotRicher(currentConfig', currentConfig)]_vars

C13_Witness ==
  /\ adaptationCount = 5
  /\ returnedConfig = MinimalConfig
  /\ browser = "safari"
  /\ snapshotsRecorded = RECENT_COUNT

\* C14 as stated: no operation of the optimizer, reset included, lowers the
\* adaptation counter.
C14_CounterNeverDecreases ==
  [][adaptationCount' >= adaptationCount]_vars

\* C14 amended: analyzePerformance, shouldAdapt, adaptConfiguration and
\* getOptimalConfiguration never lower the adaptation counter; reset sets it
\* to 0.
C14_CounterDecreasesOnlyOnReset ==
  [][/\ optCall' # "reset" => adaptationCount' >= adaptationCount
     /\ optCall' = "reset" => adaptationCount' = 0]_vars

C14_Witness ==
  /\ optCall = "reset"
  /\ adaptationCount = 0
  /\ adapted
  /\ performanceHistory = << >>
  /\ browser = "chrome"

----------------------------------------------------------------------------
(* Repeated measure / adapt / reset cycles of one optimizer *)

MaxCycleSnapshots == 30

\* a snapshot of consistently poor performance
PoorSnapshot == Stats(Hundredths(200), 30)

InitCycles ==
  /\ NoFrames
  /\ NoSpeechInput
  /\ IdleChat
  /\ NoTwin
  /\ IdleMonitor
  /\ IdleHandler
  /\ NoSelection
  /\ IdleAvatar
  /\ InitOptimizer
  /\ statsPool = { PoorSnapshot }
  /\ snapshotBudget = MaxCycleSnapshots

NextCycles ==
  \/ analyzePerformance
  \/ adaptConfiguration
  \/ reset

SpecCycles == InitCycles /\ [][NextCycles]_vars

SmoothingValid(s) ==
  /\ 0 < s.NEUTRAL_LERP_SPEED
  /\ s.NEUTRAL_LERP_SPEED <= s.ACTIVE_LERP_SPEED
  /\ s.ACTIVE_LERP_SPEED <= SCALE
  /\ 0 <= s.MIN_THRESHOLD
  /\ s.MIN_THRESHOLD < SCALE
  /\ s.MAX_BLEND_VISEMES >= 1

\* C15: in every reachable state the smoothing values of the current
\* configuration satisfy 0 < NEUTRAL_LERP_SPEED <= ACTIVE_LERP_SPEED <= 1,
\* 0 <= MIN_THRESHOLD < 1 and MAX_BLEND_VISEMES >= 1.
C15_SmoothingStaysValid == SmoothingValid(currentConfig.smoothing)

----------------------------------------------------------------------------
(* Calls of categorizeError and getRecoveryStrategy on given values *)

MaxClassifications == 2

ErrorNames == { NullMessage, NameError, NameInvalidStateError, NumberValue }

ErrorMessages ==
  { NullMessage, MsgEmpty, NumberValue, MsgTemporaryProcessingError,
    MsgFeatureNotSupported, MsgFailedToConnect, MsgLipsyncInitializationFailed,
    MsgAudioContextInitializationFailed, MsgSomeRandomError,
    MsgWebAudioNotSupported, MsgServiceUnavailable }

\* the values handed to categorizeError
ErrorInputs ==
  { NullError } \cup { ErrorObject(n, m) : n \in ErrorNames, m \in ErrorMessages }

\* the keys handed to getRecoveryStrategy: the six kinds and a key that is
\* not in the table
ErrorTypeInputs == LIPSYNC_ERROR_TYPES \cup { "timeout_error" }

InitClassify ==
  /\ NoFrames
  /\ NoSpeechInput
  /\ IdleChat
  /\ NoTwin
  /\ IdleMonitor
  /\ NoSelection
  /\ IdleAvatar
  /\ IdleOptimizer
  /\ errorInput \in ErrorInputs
  /\ NoClassification
  /\ fallbackInput = [ audio |-> NoAudio, intensity |-> 0 ]
  /\ NoFallbackCall

CategorizeError ==
  /\ errorCalls < MaxClassifications
  /\ errorResult' = categorizeError(errorInput)
  /\ errorCalls' = errorCalls + 1
  /\ UNCHANGED << errorInput, strategyInput, strategyResult, fallbackInput,
                  fallbackResult, blendVars, selectVars, phase, avatarVars,
                  optVars, monitorVars, twinVars, chatVars, speechVars >>

GetRecoveryStrategy ==
  /\ \E errorType \in ErrorTypeInputs :
       /\ strategyInput' = errorType
       /\ strategyResult' = getRecoveryStrategy(errorType)
  /\ UNCHANGED << errorInput, errorResult, errorCalls, fallbackInput,
                  fallbackResult, blendVars, selectVars, phase, avatarVars,
                  optVars, monitorVars, twinVars, chatVars, speechVars >>

NextClassify ==
  \/ CategorizeError
  \/ GetRecoveryStrategy

SpecClassify == InitClassify /\ [][NextClassify]_vars

\* C16: every call of categorizeError returns one of the six kinds and
\* never throws, whatever the value (null, missing or non-string message or
\* name included), and a second call on the same value returns the same
\* kind.
C16_ClassifierTotalAndStable ==
  [][errorCalls' > errorCalls =>
       /\ errorResult' \in LIPSYNC_ERROR_TYPES
       /\ errorCalls >= 1 => errorResult' = errorResult]_vars

\* the lower-case name and message the rules are applied to
LowerName(error) ==
  IF error.falsy \/ error.name = NullMessage THEN << >>
  ELSE toLowerCase(error.name)

LowerMessage(error) ==
  IF error.falsy \/ error.message = NullMessage THEN << >>
  ELSE toLowerCase(error.message)

\* the kinds of the rules in the order of the claim
RuleKinds ==
  << CONTEXT_ERROR, AUDIO_CONNECTION_FAILED, PROCESSING_ERROR,
     BROWSER_UNSUPPORTED, INITIALIZATION_FAILED >>

RuleMatches(rule, error) ==
  LET name == LowerName(error)
      message == LowerMessage(error)
  IN CASE rule = 1 -> includes(name, PatInvalidState) \/ includes(message, PatContext)
       [] rule = 2 -> includes(message, PatAudio) \/ includes(message, PatConnect)
       [] rule = 3 -> includes(message, PatProcess) \/ includes(message, PatAnalyze)
       [] rule = 4 -> includes(message, PatNotSupported)
                        \/ includes(message, PatUnavailable)
       [] rule = 5 -> includes(message, PatInit) \/ includes(message, PatConstructor)
       [] OTHER -> FALSE

MatchingRules(error) ==
  { rule \in DOMAIN RuleKinds : ~error.falsy /\ RuleMatches(rule, error) }

\* name and message are strings or missing
HasStringProperties(error) ==
  error.name # NumberValue /\ error.message # NumberValue

Classified == errorCalls >= 1

\* C17: for an error whose name and message are strings (or missing), the
\* kind returned is that of the earliest rule, in the order context-state,
\* audio/connect, process/analyze, not supported/unavailable,
\* init/constructor, that matches the lower-cased name or message, and
\* UnknownError when none matches; InvalidStateError with message
\* 'AudioContext initialization failed' is ContextError.
C17_FirstMatchingRuleWins ==
  (Classified /\ HasStringProperties(errorInput)) =>
    /\ \A rule \in MatchingRules(errorInput) :
         (\A earlier \in MatchingRules(errorInput) : rule <= earlier)
           => errorResult = RuleKinds[rule]
    /\ MatchingRules(errorInput) = {} => errorResult = UNKNOWN_ERROR
    /\ errorInput = ErrorObject(NameInvalidStateError,
                                MsgAudioContextInitializationFailed)
         => errorResult = CONTEXT_ERROR

C17_Witness ==
  /\ Classified
  /\ errorInput = ErrorObject(NameInvalidStateError,
                              MsgAudioContextInitializationFailed)
  /\ MatchingRules(errorInput) = { 1, 2, 5 }
  /\ errorResult = CONTEXT_ERROR

\* the message reports missing browser support
ReportsMissingSupport(error) ==
  /\ ~error.falsy
  /\ \/ includes(error.message, PatNotSupported)
     \/ includes(error.message, PatUnavailable)

StrategyObtained == strategyInput # Null

\* delay and maxRetries of the table, by kind
TableDelay(kind) ==
  CASE kind = INITIALIZATION_FAILED -> 2000
    [] kind = AUDIO_CONNECTION_FAILED -> 1000
    [] kind = PROCESSING_ERROR -> 500
    [] kind = CONTEXT_ERROR -> 5000
    [] kind = UNKNOWN_ERROR -> 3000
    [] kind = BROWSER_UNSUPPORTED -> 0

TableMaxRetries(kind) ==
  CASE kind = INITIALIZATION_FAILED -> 3
    [] kind = AUDIO_CONNECTION_FAILED -> 2
    [] kind = PROCESSING_ERROR -> 1
    [] kind = CONTEXT_ERROR -> 2
    [] kind = UNKNOWN_ERROR -> 1
    [] kind = BROWSER_UNSUPPORTED -> 0

\* C19: getRecoveryStrategy returns maxRetries = 0 with delay 0 for
\* BrowserUnsupported and only for it; every other kind gets maxRetries >= 1
\* and delay > 0 with the values of the table; a key that is not in the
\* table gets the strategy of UnknownError.
C19_RecoveryTable ==
  StrategyObtained =>
    /\ strategyResult.maxRetries = 0 <=> strategyInput = BROWSER_UNSUPPORTED
    /\ strategyInput = BROWSER_UNSUPPORTED => strategyResult.delay = 0
    /\ strategyInput # BROWSER_UNSUPPORTED =>
         strategyResult.maxRetries >= 1 /\ strategyResult.delay > 0
    /\ strategyInput \in LIPSYNC_ERROR_TYPES =>
         /\ strategyResult.delay = TableDelay(strategyInput)
         /\ strategyResult.maxRetries = TableMaxRetries(strategyInput)
    /\ strategyInput \notin LIPSYNC_ERROR_TYPES =>
         /\ strategyResult.delay = TableDelay(UNKNOWN_ERROR)
         /\ strategyResult.maxRetries = TableMaxRetries(UNKNOWN_ERROR)
         /\ strategyResult.fallbackConfig = LipsyncConfig(512, 4)

C19_Witness ==
  /\ strategyInput \notin LIPSYNC_ERROR_TYPES
  /\ StrategyObtained
  /\ strategyResult.delay = 3000
  /\ strategyResult.maxRetries = 1

----------------------------------------------------------------------------
(* Calls of generateFallbackLipsync on given audio elements *)

\* playback positions and durations in tenths of a second
PlaybackTimes == { 0, 5, 10, 25, 40, 50 }

Durations == { 0, 10, 40, 100 }

\* intensities in tenths; 5 is the default
FallbackIntensities == { 0, 5, 10 }

FallbackAudios ==
  { NoAudio } \cup
  { AudioElement(paused, ended, currentTime, duration) :
      paused \in BOOLEAN, ended \in BOOLEAN, currentTime \in PlaybackTimes,
      duration \in Durations }

InitFallback ==
  /\ NoFrames
  /\ NoSpeechInput
  /\ IdleChat
  /\ NoTwin
  /\ IdleMonitor
  /\ NoSelection
  /\ IdleAvatar
  /\ IdleOptimizer
  /\ errorInput = NullError
  /\ NoClassification
  /\ fallbackInput \in [ audio : FallbackAudios, intensity : FallbackIntensities ]
  /\ NoFallbackCall

GenerateFallbackLipsync ==
  /\ fallbackResult' =
       [ called |-> TRUE,
         visemes |-> generateFallbackLipsync(fallbackInput.audio,
                                             fallbackInput.intensity) ]
  /\ UNCHANGED << errorInput, errorResult, errorCalls, strategyInput,
                  strategyResult, fallbackInput, blendVars, selectVars, phase,
                  avatarVars, optVars, monitorVars, twinVars, chatVars,
                  speechVars >>

NextFallback == GenerateFallbackLipsync

SpecFallback == InitFallback /\ [][NextFallback]_vars

\* the audio source is absent, paused, ended, of unknown duration, or
\* played to its end
NothingToAnimate(a) ==
  \/ ~a.present
  \/ a.paused
  \/ a.ended
  \/ a.duration = 0
  \/ a.currentTime >= a.duration

\* C20: generateFallbackLipsync returns the empty mapping when the audio
\* source is absent, paused, ended, of unknown duration or played to its
\* end, and otherwise a mapping of exactly viseme_AA, viseme_E, viseme_I and
\* viseme_O.
C20_FallbackEmptyOrFourTargets ==
  fallbackResult.called =>
    IF NothingToAnimate(fallbackInput.audio)
      THEN fallbackResult.visemes = << >>
      ELSE /\ Len(fallbackResult.visemes) = 4
           /\ { fallbackResult.visemes[i].viseme :
                  i \in DOMAIN fallbackResult.visemes }
                = { "viseme_AA", "viseme_E", "viseme_I", "viseme_O" }

C20_Witness ==
  /\ fallbackResult.called
  /\ fallbackInput.audio = AudioElement(FALSE, FALSE, 10, 100)
  /\ fallbackInput.intensity = 5
  /\ Len(fallbackResult.visemes) = 4

----------------------------------------------------------------------------
(* The performance monitors: LipsyncPerformanceMonitor of                  *)
(* utils/lipsyncErrorHandler.js and LipsyncPerformanceOptimizer of         *)
(* utils/lipsyncOptimization.js                                            *)

MaxTimings == 102

MaxRecords == 3

TIMING_HISTORY_LIMIT == 100

PerformanceMonitor == "LipsyncPerformanceMonitor"

PerformanceOptimizer == "LipsyncPerformanceOptimizer"

MonitorClasses == { PerformanceMonitor, PerformanceOptimizer }

\* the duration in milliseconds measured by the n-th endTiming call
DurationOf(n) == (n % 3) * 10

\* a timing sample; arrival numbers the endTiming calls from 1
TimingSample(n) == [ arrival |-> n, duration |-> DurationOf(n) ]

\* LipsyncPerformanceMonitor.endTiming: push, then shift beyond the limit
endTimingOfMonitor(history, timing) ==
  LET pushed == Append(history, timing)
  IN IF Len(pushed) > TIMING_HISTORY_LIMIT THEN Tail(pushed) ELSE pushed

\* LipsyncPerformanceOptimizer.endTiming: push
endTimingOfOptimizer(history, timing) == Append(history, timing)

\* errorRate of getStats: a fixed-point ratio, or NaN
ErrorRate(isNaN, rate) == [ called |-> TRUE, isNaN |-> isNaN, errorRate |-> rate ]

\* LipsyncPerformanceMonitor.getStats: errors / (errors + successes) || 0
getStatsOfMonitor(errors, successes) ==
  IF errors + successes = 0
    THEN ErrorRate(FALSE, 0)
    ELSE ErrorRate(FALSE, (errors * SCALE) \div (errors + successes))

\* LipsyncPerformanceOptimizer.getStats: errors / (errors + successes)
getStatsOfOptimizer(errors, successes) ==
  IF errors + successes = 0
    THEN ErrorRate(TRUE, 0)
    ELSE ErrorRate(FALSE, (errors * SCALE) \div (errors + successes))

\* the errors handed to recordError
RecordedErrors ==
  { ErrorObject(NameError, MsgSomeRandomError),
    ErrorObject(NameError, MsgTemporaryProcessingError) }

\* constructor of either class
InitMonitor ==
  /\ monitorClass \in MonitorClasses
  /\ processingTime = << >>
  /\ timingsRecorded = 0
  /\ errorCount = 0
  /\ successCount = 0
  /\ monitorCall = Null
  /\ lastError = Null
  /\ monitorStats = [ called |-> FALSE, isNaN |-> FALSE, errorRate |-> 0 ]

InitMonitorRun ==
  /\ NoFrames
  /\ NoSpeechInput
  /\ IdleChat
  /\ NoTwin
  /\ NoSelection
  /\ IdleAvatar
  /\ IdleOptimizer
  /\ IdleHandler
  /\ InitMonitor

EndTiming ==
  /\ timingsRecorded < MaxTimings
  /\ timingsRecorded' = timingsRecorded + 1
  /\ processingTime' =
       IF monitorClass = PerformanceMonitor
         THEN endTimingOfMonitor(processingTime, TimingSample(timingsRecorded'))
         ELSE endTimingOfOptimizer(processingTime, TimingSample(timingsRecorded'))
  /\ monitorCall' = "endTiming"
  /\ UNCHANGED << monitorClass, errorCount, successCount, lastError,
                  monitorStats, blendVars, selectVars, phase, avatarVars,
                  optVars, handlerVars, twinVars, chatVars, speechVars >>

recordSuccess ==
  /\ errorCount + successCount < MaxRecords
  /\ successCount' = successCount + 1
  /\ monitorCall' = "recordSuccess"
  /\ UNCHANGED << monitorClass, processingTime, timingsRecorded, errorCount,
                  lastError, monitorStats, blendVars, selectVars, phase,
                  avatarVars, optVars, handlerVars, twinVars, chatVars,
                  speechVars >>

recordError ==
  /\ errorCount + successCount < MaxRecords
  /\ errorCount' = errorCount + 1
  /\ \E error \in RecordedErrors :
       lastError' = IF monitorClass = PerformanceMonitor
                      THEN categorizeError(error)
                      ELSE lastError
  /\ monitorCall' = "recordError"
  /\ UNCHANGED << monitorClass, processingTime, timingsRecorded,
                  successCount, monitorStats, blendVars, selectVars, phase,
                  avatarVars, optVars, handlerVars, twinVars, chatVars,
                  speechVars >>

getStats ==
  /\ monitorStats' =
       IF monitorClass = PerformanceMonitor
         THEN getStatsOfMonitor(errorCount, successCount)
         ELSE getStatsOfOptimizer(errorCount, successCount)
  /\ monitorCall' = "getStats"
  /\ UNCHANGED << monitorClass, processingTime, timingsRecorded, errorCount,
                  successCount, lastError, blendVars, selectVars, phase,
                  avatarVars, optVars, handlerVars, twinVars, chatVars,
                  speechVars >>

resetMonitor ==
  /\ monitorCall # Null
  /\ processingTime' = << >>
  /\ timingsRecorded' = 0
  /\ errorCount' = 0
  /\ successCount' = 0
  /\ lastError' = Null
  /\ monitorCall' = "reset"
  /\ UNCHANGED << monitorClass, monitorStats, blendVars, selectVars, phase,
                  avatarVars, optVars, handlerVars, twinVars, chatVars,
                  speechVars >>

NextTimings == EndTiming

SpecTimings == InitMonitorRun /\ [][NextTimings]_vars

NextCounters ==
  \/ recordSuccess
  \/ recordError
  \/ getStats
  \/ resetMonitor

SpecCounters == InitMonitorRun /\ [][NextCounters]_vars

\* C21: after any number of endTiming calls the timing history holds at most
\* 100 samples, and they are the most recently recorded ones in arrival
\* order.
C21_HistoryHoldsLastHundred ==
  /\ Len(processingTime) = Min(timingsRecorded, 100)
  /\ \A i \in DOMAIN processingTime :
       processingTime[i].arrival = timingsRecorded - Len(processingTime) + i

\* C22: after any sequence of recordSuccess, recordError and reset calls the
\* errorRate of getStats is errors / (errors + successes) for the current
\* counters, and 0 (not an undefined value) when both counters are 0.
C22_ErrorRateDefined ==
  [][monitorCall' = "getStats" =>
       /\ ~monitorStats'.isNaN
       /\ monitorStats'.errorRate =
            IF errorCount + successCount = 0 THEN 0
            ELSE (errorCount * SCALE) \div (errorCount + successCount)]_vars

----------------------------------------------------------------------------
(* Frames with a fixed expression and no active visemes *)

MaxExpressionFrames == 3

\* the expressions of the catalog
CatalogExpressions == { "default", "smile", "sad", "surprised", "testExpression" }

\* the morph targets resting at the values of an expression's profile
AtProfile(expression) ==
  [ t \in MorphTargetNames |->
      IF t \in DOMAIN facialExpressions[expression]
        THEN facialExpressions[expression][t]
        ELSE 0 ]

\* the morph targets when the expression is selected: all zero, or at rest
\* at the profile of the expression shown before
RestingSystems ==
  { createMockMorphTargetSystem } \cup
  { AtProfile(e) : e \in CatalogExpressions }

\* samples without a viseme: null and the empty object
EmptySamples == { NoVisemes, << >> }

InitExpression ==
  /\ morphTargets \in RestingSystems
  /\ frameCount = 0
  /\ facialExpression \in CatalogExpressions
  /\ lipsyncVisemes = NoVisemes
  /\ hasActiveLipsync = FALSE
  /\ appliedVisemes = {}
  /\ NoSpeechInput
  /\ IdleChat
  /\ NoTwin
  /\ IdleMonitor
  /\ IdleHandler
  /\ NoSelection
  /\ IdleAvatar
  /\ IdleOptimizer

ExpressionFrame ==
  /\ frameCount < MaxExpressionFrames
  /\ \E v \in EmptySamples, a \in BOOLEAN :
       /\ morphTargets' = simulateFrameUpdate(morphTargets, facialExpression, v, a)
       /\ lipsyncVisemes' = v
       /\ hasActiveLipsync' = a
       /\ appliedVisemes' = AppliedTargets(v, a)
  /\ frameCount' = frameCount + 1
  /\ UNCHANGED << facialExpression, selectVars, handlerVars, phase,
                  avatarVars, optVars, monitorVars, twinVars, chatVars,
                  speechVars >>

NextExpression == ExpressionFrame

SpecExpression == InitExpression /\ [][NextExpression]_vars

NonVisemeTargets == MorphTargetNames \ VisemeTargets

\* the step from old to new approaches the goal without passing it, stays
\* at the goal once there, and moves while the goal is farther away than
\* the resolution of the fixed-point interpolation
Approaches(old, new, goal) ==
  /\ old <= goal => (old <= new /\ new <= goal)
  /\ old >= goal => (goal <= new /\ new <= old)
  /\ (goal - old >= 10 \/ old - goal >= 10) => new # old

\* C23: with a fixed expression profile and no active visemes, a frame moves
\* every non-viseme target of the profile toward its profile value without
\* overshooting, leaves a target that equals its profile value unchanged,
\* and leaves the other non-viseme targets alone.
C23_ExpressionConvergesWithoutDrift ==
  [][frameCount' = frameCount + 1 =>
       \A t \in NonVisemeTargets :
         IF t \in DOMAIN facialExpressions[facialExpression] /\ t \notin BlinkTargets
           THEN Approaches(morphTargets[t], morphTargets'[t],
                           facialExpressions[facialExpression][t])
           ELSE morphTargets'[t] = morphTargets[t]]_vars

\* after the frames of the run the sad expression still rests at its profile
C23_Witness ==
  /\ frameCount = MaxExpressionFrames
  /\ facialExpression = "sad"
  /\ \A t \in DOMAIN facialExpressions["sad"] :
       morphTargets[t] = facialExpressions["sad"][t]

----------------------------------------------------------------------------
(* Two runs of the blending engine on the same expressions *)

MaxTwinFrames == 2

TwinExpressions == { "smile", "testExpression", Null }

TwinSamples ==
  { << Entry("viseme_AA", Hundredths(80)) >>,
    << Entry("viseme_AA", Hundredths(80)), Entry("viseme_E", Hundredths(70)),
       Entry("viseme_I", Hundredths(60)), Entry("viseme_O", Hundredths(50)),
       Entry("viseme_U", Hundredths(40)), Entry("viseme_PP", Hundredths(30)),
       Entry("viseme_sil", Hundredths(20)) >> }

InitTwin ==
  /\ NoFrames
  /\ NoSpeechInput
  /\ IdleChat
  /\ NoTwin
  /\ IdleMonitor
  /\ IdleHandler
  /\ NoSelection
  /\ IdleAvatar
  /\ IdleOptimizer

\* one frame of each run: the same expression, samples and flags of their own
TwinFrame ==
  /\ frameCount < MaxTwinFrames
  /\ \E e \in TwinExpressions, v \in TwinSamples, a \in BOOLEAN,
        w \in TwinSamples, b \in BOOLEAN :
       /\ morphTargets' = simulateFrameUpdate(morphTargets, e, v, a)
       /\ twinMorphTargets' = simulateFrameUpdate(twinMorphTargets, e, w, b)
       /\ facialExpression' = e
       /\ lipsyncVisemes' = v
       /\ hasActiveLipsync' = a
       /\ appliedVisemes' = AppliedTargets(v, a)
       /\ twinVisemes' = w
       /\ twinActive' = b
  /\ frameCount' = frameCount + 1
  /\ UNCHANGED << selectVars, handlerVars, phase, avatarVars, optVars,
                  monitorVars, chatVars, speechVars >>

NextTwin == TwinFrame

SpecTwin == InitTwin /\ [][NextTwin]_vars

\* C24: two runs that start equal and receive the same expressions have the
\* same intensity on every non-viseme target after every frame, whatever
\* viseme samples and lipsync-active flags each of them receives.
C24_NonVisemeTargetsIgnoreLipsync ==
  \A t \in NonVisemeTargets : morphTargets[t] = twinMorphTargets[t]

\* the runs differed in sample and in flag, and an expression target moved
C24_Witness ==
  /\ frameCount = MaxTwinFrames
  /\ facialExpression = "testExpression"
  /\ lipsyncVisemes # twinVisemes
  /\ hasActiveLipsync /\ ~twinActive
  /\ morphTargets["viseme_AA"] # twinMorphTargets["viseme_AA"]
  /\ morphTargets["mouthSmileLeft"] > 0

----------------------------------------------------------------------------
(* Frames whose expression profile names the blink targets *)

MaxBlinkFrames == 3

\* a profile that names both blink targets next to an expression target
BlinkingProfile ==
  [ eyeBlinkLeft |-> SCALE, eyeBlinkRight |-> Hundredths(50),
    mouthSmileLeft |-> Hundredths(60) ]

\* blink values: open, below MIN_THRESHOLD, half closed, closed
BlinkInputs == { 0, Hundredths(1), Hundredths(50), SCALE }

BlinkSamples ==
  { NoVisemes,
    << Entry("viseme_AA", Hundredths(80)) >>,
    << Entry("viseme_AA", Hundredths(80)), Entry("viseme_E", Hundredths(70)),
       Entry("viseme_I", Hundredths(60)), Entry("viseme_O", Hundredths(50)),
       Entry("viseme_U", Hundredths(40)), Entry("viseme_PP", Hundredths(30)),
       Entry("viseme_sil", Hundredths(20)) >> }

\* the expression, viseme and neutral steps of a frame on a given profile
BlendWithProfile(m, mapping, visemes, active, speed) ==
  ReturnToNeutral(
    ApplyLipsyncVisemes(
      ApplyExpressionEntries(m, mapping, DOMAIN mapping, active),
      visemes, active, speed),
    activeVisemes(visemes), 1)

InitBlink ==
  /\ NoFrames
  /\ NoSpeechInput
  /\ IdleChat
  /\ NoTwin
  /\ IdleMonitor
  /\ IdleHandler
  /\ NoSelection
  /\ IdleAvatar
  /\ IdleOptimizer

\* a frame: expression, visemes, return to neutral, then the blink step
BlinkFrame ==
  /\ frameCount < MaxBlinkFrames
  /\ \E v \in BlinkSamples, a \in BOOLEAN, b \in BlinkInputs :
       /\ morphTargets' =
            ApplyBlink(BlendWithProfile(morphTargets, BlinkingProfile, v, a,
                                        ACTIVE_LERP_SPEED), b)
       /\ lipsyncVisemes' = v
       /\ hasActiveLipsync' = a
       /\ appliedVisemes' = AppliedTargets(v, a)
       /\ blink' = b
  /\ frameCount' = frameCount + 1
  /\ UNCHANGED << facialExpression, phase, browserSupported, fallbackMode,
                  lipsyncError, retryCount, lipsyncRef, retryTimer,
                  fallbackTimer, audio, analyzerInvoked, frameReturned,
                  visemeSource, errorKind, loggedErrors, everUnsupported,
                  constructions, selectVars, handlerVars, optVars,
                  monitorVars, twinVars, chatVars, speechVars >>

NextBlink == BlinkFrame

SpecBlink == InitBlink /\ [][NextBlink]_vars

\* C25: the expression and viseme steps of a frame leave eyeBlinkLeft and
\* eyeBlinkRight as they were, also when the profile names them, and after
\* the frame both hold the blink value itself, whatever its size, the
\* number of visemes in the sample and the lipsync-active flag.
C25_BlinkTargetsIndependent ==
  [][frameCount' = frameCount + 1 =>
       \A t \in BlinkTargets :
         /\ BlendWithProfile(morphTargets, BlinkingProfile, lipsyncVisemes',
                             hasActiveLipsync', ACTIVE_LERP_SPEED)[t]
              = morphTargets[t]
         /\ morphTargets'[t] = blink']_vars

\* a blink value below the threshold, written in a frame with lipsync
\* active on seven visemes
C25_Witness ==
  /\ frameCount = MaxBlinkFrames
  /\ hasActiveLipsync
  /\ lipsyncVisemes # NoVisemes
  /\ Len(lipsyncVisemes) = 7
  /\ blink = Hundredths(1)
  /\ morphTargets["eyeBlinkLeft"] = Hundredths(1)
  /\ morphTargets["eyeBlinkRight"] = Hundredths(1)
  /\ morphTargets["mouthSmileLeft"] > 0

----------------------------------------------------------------------------
(* Frames that receive a NaN input (SpecNaN) *)

MaxNaNFrames == 2

\* expression profiles, one with a NaN value for a non-viseme target and one
\* with a NaN value for a viseme target
NaNProfiles ==
  [ finiteProfile |-> [ browInnerUp |-> Hundredths(17),
                        mouthSmileLeft |-> Hundredths(61) ],
    nanProfile |-> [ browInnerUp |-> NaN,
                     mouthSmileLeft |-> Hundredths(61) ],
    nanVisemeProfile |-> [ mouthSmileLeft |-> Hundredths(60),
                           viseme_AA |-> NaN ] ]

\* viseme samples, two with a NaN score
NaNSamples ==
  { NoVisemes,
    << Entry("viseme_AA", Hundredths(80)) >>,
    << Entry("viseme_AA", NaN) >>,
    << Entry("viseme_AA", NaN), Entry("viseme_E", Hundredths(70)) >> }

\* the targets a frame's NaN inputs address
NaNTargets(mapping, visemes, active) ==
  { k \in DOMAIN mapping \ BlinkTargets : mapping[k] = NaN }
    \union
  ( IF active /\ visemes # NoVisemes
      THEN { MapViseme(visemes[i].viseme) :
               i \in { j \in DOMAIN visemes : visemes[j].value = NaN } }
             \ { Null }
      ELSE {} )

InitNaN ==
  /\ NoFrames
  /\ NoSpeechInput
  /\ IdleChat
  /\ NoTwin
  /\ IdleMonitor
  /\ IdleHandler
  /\ NoSelection
  /\ IdleAvatar
  /\ IdleOptimizer

NaNFrame ==
  /\ frameCount < MaxNaNFrames
  /\ \E e \in DOMAIN NaNProfiles, v \in NaNSamples, a \in BOOLEAN :
       /\ morphTargets' =
            BlendWithProfile(morphTargets, NaNProfiles[e], v, a,
                             ACTIVE_LERP_SPEED)
       /\ facialExpression' = e
       /\ lipsyncVisemes' = v
       /\ hasActiveLipsync' = a
       /\ appliedVisemes' = AppliedTargets(v, a)
  /\ frameCount' = frameCount + 1
  /\ UNCHANGED << phase, avatarVars, selectVars, handlerVars, optVars,
                  monitorVars, twinVars, chatVars, speechVars >>

NextNaN == NaNFrame

SpecNaN == InitNaN /\ [][NextNaN]_vars

\* C26: after a frame that receives a NaN input no target holds NaN, and
\* every target a NaN input addresses has moved toward 0.
C26_NaNTreatedAsZero ==
  [][frameCount' = frameCount + 1 =>
       /\ \A t \in DOMAIN morphTargets' : morphTargets'[t] # NaN
       /\ \A t \in NaNTargets(NaNProfiles[facialExpression'], lipsyncVisemes',
                              hasActiveLipsync') :
            /\ morphTargets[t] # NaN
            /\ Approaches(morphTargets[t], morphTargets'[t], 0)]_vars

----------------------------------------------------------------------------
(* Decay of unselected viseme targets (SpecDecay) *)

MaxDecayFrames == 18

\* a target the aliases make occur twice among allVisemeTargets and two that
\* occur once
DecayTargets == { "viseme_E", "viseme_PP", "viseme_sil" }

DecayStarts == { SCALE, Hundredths(50) }

\* samples that select no viseme: lipsyncVisemes null or {}
UnselectingSamples == { NoVisemes, << >> }

InitDecay ==
  /\ NoFrames
  /\ NoSpeechInput
  /\ IdleChat
  /\ NoTwin
  /\ IdleMonitor
  /\ IdleHandler
  /\ NoSelection
  /\ IdleAvatar
  /\ IdleOptimizer

\* mockSystem.applyMorphTarget(target, value, 1.0) before the first frame
SetIntensity ==
  /\ frameCount = 0
  /\ \E t \in DecayTargets, value \in DecayStarts :
       /\ morphTargets[t] = 0
       /\ morphTargets' = applyMorphTarget(morphTargets, t, value, 10)
  /\ UNCHANGED << frameCount, facialExpression, lipsyncVisemes,
                  hasActiveLipsync, appliedVisemes, phase, avatarVars,
                  selectVars, handlerVars, optVars, monitorVars, twinVars,
                  chatVars, speechVars >>

\* simulateFrameUpdate(mockSystem, 'default', {}, false) and its variants
\* without a selected viseme
DecayFrame ==
  /\ frameCount < MaxDecayFrames
  /\ \E v \in UnselectingSamples, a \in BOOLEAN :
       /\ morphTargets' = simulateFrameUpdate(morphTargets, "default", v, a)
       /\ lipsyncVisemes' = v
       /\ hasActiveLipsync' = a
       /\ appliedVisemes' = AppliedTargets(v, a)
  /\ facialExpression' = "default"
  /\ frameCount' = frameCount + 1
  /\ UNCHANGED << phase, avatarVars, selectVars, handlerVars, optVars,
                  monitorVars, twinVars, chatVars, speechVars >>

NextDecay ==
  \/ SetIntensity
  \/ DecayFrame

SpecDecay == InitDecay /\ [][NextDecay]_vars

\* C27: in a frame without a selected viseme a non-zero viseme target
\* strictly decreases and stays at or above 0, and from the 18th such frame
\* on every viseme target is within MIN_THRESHOLD of 0.
C27_DecayIsMonotoneAndBounded ==
  [][frameCount' = frameCount + 1 =>
       \A t \in VisemeTargets :
         /\ morphTargets[t] > 0 => morphTargets'[t] < morphTargets[t]
         /\ morphTargets'[t] >= 0
         /\ frameCount' >= 18 => morphTargets'[t] <= MIN_THRESHOLD]_vars

\* 18 frames after viseme_sil and viseme_PP were set to 1 and viseme_E to
\* 0.5, the targets that decay once a frame are still above 0
C27_Witness ==
  /\ frameCount = 18
  /\ morphTargets["viseme_sil"] > 0
  /\ morphTargets["viseme_sil"] <= MIN_THRESHOLD
  /\ morphTargets["viseme_sil"] > Hundredths(1)
  /\ morphTargets["viseme_PP"] = morphTargets["viseme_sil"]
  /\ morphTargets["viseme_E"] < morphTargets["viseme_sil"]

----------------------------------------------------------------------------
(* The first adaptation as its caller sees it *)

\* C28: when shouldAdapt() holds and no adaptation has been made, a call of
\* adaptConfiguration() that directly follows getOptimalConfiguration()
\* returns a historySize strictly smaller than the one that call returned.
C28_FirstAdaptationShrinksHistory ==
  [][( /\ optCall = "getOptimalConfiguration"
       /\ optCall' = "adaptConfiguration"
       /\ adaptationCount = 0
       /\ shouldAdapt(adaptationCount, performanceHistory) )
       => returnedConfig'.historySize < returnedConfig.historySize]_vars

----------------------------------------------------------------------------
(* hooks/useChat.jsx: ChatProvider (SpecChat) *)

\* requests made at most: the welcome request and the calls of chat
MaxRequests == 2

\* the n-th message the backend produced; text n stands for its text
Message(n) == [ present |-> TRUE, text |-> n, audio |-> TRUE ]

\* the message of the catch block: a fixed text and audio ""
FallbackMessage == [ present |-> TRUE, text |-> 0, audio |-> FALSE ]

\* the body of a request: message and sessionId
Request(text, session) == [ text |-> text, sessionId |-> session ]

UserTexts == { "Hello", "Again" }

\* localStorage.getItem(LS_KEY) || "default"
StoredSessions == { "default", "saved-session" }

\* the JSON bodies of the backend: count messages, or a body whose messages
\* field is not an array, with or without a suggested session
Responses ==
  { [ isArray |-> TRUE, count |-> 1, resetSuggested |-> FALSE, newSessionId |-> Null ],
    [ isArray |-> TRUE, count |-> 2, resetSuggested |-> FALSE, newSessionId |-> Null ],
    [ isArray |-> TRUE, count |-> 0, resetSuggested |-> FALSE, newSessionId |-> Null ],
    [ isArray |-> FALSE, count |-> 0, resetSuggested |-> FALSE, newSessionId |-> Null ],
    [ isArray |-> TRUE, count |-> 1, resetSuggested |-> TRUE,
      newSessionId |-> "session-2" ],
    [ isArray |-> TRUE, count |-> 1, resetSuggested |-> TRUE, newSessionId |-> Null ] }

\* the messages the backend has produced so far
Produced(history) ==
  Cardinality({ i \in DOMAIN history : history[i] # FallbackMessage })

\* Array.isArray(json?.messages) ? json.messages : []
assistantMsgs(json, history) ==
  IF json.isArray
    THEN [ i \in 1..json.count |-> Message(Produced(history) + i) ]
    ELSE << >>

\* mutant: new messages are put in front of the queue
enqueueAtFront(q, msgs) == msgs \o q

\* setQueue((q) => [...q, ...msgs])
enqueue(q, msgs) == q \o msgs

\* q.slice(1)
sliceFromOne(q) == IF q = << >> THEN << >> ELSE Tail(q)

\* queue.length > 0 ? queue[0] : null
headOfQueue(q) == IF Len(q) > 0 THEN q[1] ELSE NoCurrentMessage

RequestsMade == Len(submitted)

\* mutant: pumpUserQueue runs its loop whether or not another call is running
PumpStartsAlways(isSending) == TRUE

\* if (sendingRef.current) return
PumpStarts(isSending) == ~isSending

\* s without its i-th element
Without(s, i) == SubSeq(s, 1, i - 1) \o SubSeq(s, i + 1, Len(s))

\* pumpUserQueue from the loop condition to the next await, or to its end;
\* others are the requests of other calls that have not settled
PumpNext(pendingTexts, others, session) ==
  IF Len(pendingTexts) > 0
    THEN /\ userQueue' = Tail(pendingTexts)
         /\ inFlight' = Append(others, Request(Head(pendingTexts), session))
         /\ sent' = Append(sent, Request(Head(pendingTexts), session))
         /\ loading' = TRUE
         /\ sending' = TRUE
    ELSE /\ userQueue' = pendingTexts
         /\ inFlight' = others
         /\ sent' = sent
         /\ loading' = FALSE
         /\ sending' = FALSE

\* mutant: a text submitted while a request is pending is not queued
PushAndPumpUnlessSending(text) ==
  /\ submitted' = Append(submitted, text)
  /\ IF PumpStarts(sending)
       THEN /\ PumpNext(Append(userQueue, text), inFlight, sessionId)
            /\ pumpSessionId' = sessionId
       ELSE UNCHANGED << userQueue, inFlight, sent, loading, sending,
                         pumpSessionId >>

\* a text is pushed on userQueueRef and pumpUserQueue is called
PushAndPump(text) ==
  /\ submitted' = Append(submitted, text)
  /\ IF PumpStarts(sending)
       THEN /\ PumpNext(Append(userQueue, text), inFlight, sessionId)
            /\ pumpSessionId' = sessionId
       ELSE /\ userQueue' = Append(userQueue, text)
            /\ UNCHANGED << inFlight, sent, loading, sending, pumpSessionId >>

InitChat ==
  /\ NoFrames
  /\ NoSpeechInput
  /\ NoTwin
  /\ IdleMonitor
  /\ IdleHandler
  /\ NoSelection
  /\ IdleAvatar
  /\ IdleOptimizer
  /\ queue = << >>
  /\ currentMessage = NoCurrentMessage
  /\ loading = FALSE
  /\ sessionId \in StoredSessions
  /\ pumpSessionId = "default"
  /\ submitted = << >>
  /\ sent = << >>
  /\ shown = {}
  /\ userQueue = << >>
  /\ sending = FALSE
  /\ inFlight = << >>
  /\ effectPending = FALSE
  /\ chatMounted = FALSE
  /\ received = << >>
  /\ consumed = 0
  /\ answered = 0
  /\ failed = 0

\* the positions in received that have been current, after message is set
\* to the head of the queue
ShownWith(q) == IF Len(q) > 0 THEN shown \cup { consumed + 1 } ELSE shown

\* the effects of the first render: message follows the queue, and the
\* welcome request is sent
Mount ==
  /\ ~chatMounted
  /\ chatMounted' = TRUE
  /\ currentMessage' = headOfQueue(queue)
  /\ shown' = ShownWith(queue)
  /\ effectPending' = FALSE
  /\ IF Len(queue) = 0
       THEN PushAndPump(Null)
       ELSE UNCHANGED << userQueue, inFlight, loading, sending, submitted,
                         sent, pumpSessionId >>
  /\ UNCHANGED << queue, sessionId, received, consumed, answered, failed,
                  blendVars, selectVars, handlerVars, optVars, phase,
                  avatarVars, monitorVars, twinVars, speechVars >>

\* chat(text): the text is queued and pumpUserQueue is called
chat ==
  /\ chatMounted
  /\ RequestsMade < MaxRequests
  /\ \E text \in UserTexts : PushAndPump(text)
  /\ UNCHANGED << queue, currentMessage, sessionId, effectPending,
                  chatMounted, received, consumed, answered, failed, shown,
                  blendVars, selectVars, handlerVars, optVars, phase,
                  avatarVars, monitorVars, twinVars, speechVars >>

\* the awaited fetch and resp.json() resolve: the try block, finally, and
\* the loop up to the next await
FetchResolves ==
  /\ \E i \in DOMAIN inFlight, json \in Responses :
       /\ queue' = enqueue(queue, assistantMsgs(json, received))
       /\ received' = received \o assistantMsgs(json, received)
       /\ sessionId' =
            IF json.resetSuggested /\ json.newSessionId # Null
              THEN json.newSessionId
              ELSE sessionId
       /\ PumpNext(userQueue, Without(inFlight, i), pumpSessionId)
  /\ effectPending' = TRUE
  /\ answered' = answered + 1
  /\ UNCHANGED << currentMessage, chatMounted, consumed, failed,
                  pumpSessionId, submitted, shown, blendVars, selectVars,
                  handlerVars, optVars, phase, avatarVars, monitorVars,
                  twinVars, speechVars >>

\* the awaited fetch or resp.json() rejects: the catch block, finally, and
\* the loop up to the next await
FetchRejects ==
  /\ \E i \in DOMAIN inFlight :
       PumpNext(userQueue, Without(inFlight, i), pumpSessionId)
  /\ queue' = enqueue(queue, << FallbackMessage >>)
  /\ received' = received \o << FallbackMessage >>
  /\ effectPending' = TRUE
  /\ answered' = answered + 1
  /\ failed' = failed + 1
  /\ UNCHANGED << currentMessage, sessionId, chatMounted, consumed,
                  pumpSessionId, submitted, shown, blendVars, selectVars,
                  handlerVars, optVars, phase, avatarVars, monitorVars,
                  twinVars, speechVars >>

onMessagePlayed ==
  /\ chatMounted
  /\ queue' = sliceFromOne(queue)
  /\ consumed' = consumed + (IF Len(queue) > 0 THEN 1 ELSE 0)
  /\ effectPending' = TRUE
  /\ UNCHANGED << currentMessage, loading, sessionId, userQueue, sending,
                  inFlight, chatMounted, received, answered, failed,
                  pumpSessionId, submitted, sent, shown, blendVars,
                  selectVars, handlerVars, optVars, phase, avatarVars,
                  monitorVars, twinVars, speechVars >>

\* the effect on [queue], run after the render a queue change causes
SyncMessage ==
  /\ effectPending
  /\ currentMessage' = headOfQueue(queue)
  /\ shown' = ShownWith(queue)
  /\ effectPending' = FALSE
  /\ UNCHANGED << queue, loading, sessionId, userQueue, sending, inFlight,
                  chatMounted, received, consumed, answered, failed,
                  pumpSessionId, submitted, sent, blendVars, selectVars,
                  handlerVars, optVars, phase, avatarVars, monitorVars,
                  twinVars, speechVars >>

NextChat ==
  \/ Mount
  \/ chat
  \/ FetchResolves
  \/ FetchRejects
  \/ onMessagePlayed
  \/ SyncMessage

SpecChat == InitChat /\ [][NextChat]_vars

C30_FailedRequestContained ==
  (failed > 0 /\ failed = answered) => currentMessage = NoCurrentMessage

----------------------------------------------------------------------------
(* An expression profile that names a viseme target (SpecMouth) *)

MaxMouthFrames == 3

\* the values viseme_AA is set to before the first frame: the value of the
\* profile and its blended value
MouthStarts ==
  { facialExpressions["testExpression"]["viseme_AA"],
    blended(facialExpressions["testExpression"]["viseme_AA"], TRUE) }

MouthSamples ==
  { NoVisemes,
    << >>,
    << Entry("viseme_E", Hundredths(70)) >>,
    << Entry("viseme_AA", Hundredths(80)) >> }

InitMouth ==
  /\ NoFrames
  /\ NoSpeechInput
  /\ IdleChat
  /\ NoTwin
  /\ IdleMonitor
  /\ IdleHandler
  /\ NoSelection
  /\ IdleAvatar
  /\ IdleOptimizer

\* mockSystem.applyMorphTarget('viseme_AA', value, 1.0) before the first frame
SetMouthShape ==
  /\ frameCount = 0
  /\ morphTargets["viseme_AA"] = 0
  /\ \E value \in MouthStarts :
       morphTargets' = applyMorphTarget(morphTargets, "viseme_AA", value, 10)
  /\ UNCHANGED << frameCount, facialExpression, lipsyncVisemes,
                  hasActiveLipsync, appliedVisemes, phase, avatarVars,
                  selectVars, handlerVars, optVars, monitorVars, twinVars,
                  chatVars, speechVars >>

\* simulateFrameUpdate(mockSystem, 'testExpression', lipsyncVisemes, active)
MouthFrame ==
  /\ frameCount < MaxMouthFrames
  /\ \E v \in MouthSamples, a \in BOOLEAN :
       /\ morphTargets' =
            simulateFrameUpdate(morphTargets, "testExpression", v, a)
       /\ lipsyncVisemes' = v
       /\ hasActiveLipsync' = a
       /\ appliedVisemes' = AppliedTargets(v, a)
  /\ facialExpression' = "testExpression"
  /\ frameCount' = frameCount + 1
  /\ UNCHANGED << phase, avatarVars, selectVars, handlerVars, optVars,
                  monitorVars, twinVars, chatVars, speechVars >>

NextMouth ==
  \/ SetMouthShape
  \/ MouthFrame

SpecMouth == InitMouth /\ [][NextMouth]_vars

\* the viseme targets the profile of an expression names
ProfileVisemeTargets(expression) ==
  { t \in DOMAIN facialExpressions[expression] : isVisemeTarget(t) }

\* C31: in a frame, a viseme target the profile names and the viseme stream
\* does not drive moves toward its profile value, scaled by the blend factor
\* when lipsync is active, and stays there once it has reached it.
C31_ProfileVisemeTargetFollowsProfile ==
  [][frameCount' = frameCount + 1 =>
       \A t \in ProfileVisemeTargets(facialExpression') \ appliedVisemes' :
         Approaches(morphTargets[t], morphTargets'[t],
                    blended(facialExpressions[facialExpression'][t],
                            hasActiveLipsync'))]_vars

----------------------------------------------------------------------------
(* The Avatar component with a timer that eventually fires (SpecAvatarLive) *)

\* a pending timeout of the temporary fallback eventually runs its callback
SpecAvatarLive ==
  InitAvatar /\ [][NextAvatar]_vars /\ WF_vars(FallbackTimerFires)

\* the last frame called the analyzer, which threw a processing error
InTemporaryFallback ==
  /\ fallbackMode
  /\ analyzerInvoked
  /\ errorKind = PROCESSING_ERROR

\* C32: after a processing error has enabled fallback mode, fallback mode
\* and the recorded error are eventually cleared, and a frame that runs with
\* fallback mode off, an analyzer and an audio element calls the analyzer.
C32_ProcessingResumes ==
  /\ InTemporaryFallback ~> (~fallbackMode /\ lipsyncError = NullMessage)
  /\ [][(frameCount' = frameCount + 1 /\ ~fallbackMode /\ lipsyncRef
           /\ audio'.present) => analyzerInvoked']_vars

\* the first frame met a processing error, the timer cleared fallback mode
\* and the error, and the second frame called the analyzer again
C32_Witness ==
  /\ frameCount = 2
  /\ loggedErrors = 1
  /\ errorKind = PROCESSING_ERROR
  /\ ~fallbackMode
  /\ lipsyncError = NullMessage
  /\ fallbackTimer = 0
  /\ analyzerInvoked
  /\ visemeSource = "analyzer"

----------------------------------------------------------------------------
(* The user queue of ChatProvider *)

\* every fetch eventually settles
SpecChatLive ==
  InitChat /\ [][NextChat]_vars /\ WF_vars(FetchResolves \/ FetchRejects)

SentTexts == [ i \in DOMAIN sent |-> sent[i].text ]

IsPrefix(s, t) == Len(s) <= Len(t) /\ s = SubSeq(t, 1, Len(s))

\* C33: at most one request is in flight, and the texts are sent in the
\* order in which they were submitted.
C33_OneRequestAtATime ==
  /\ Len(inFlight) <= 1
  /\ IsPrefix(SentTexts, submitted)

\* a text was submitted while the welcome request was pending
C33_Witness ==
  /\ Len(inFlight) = 1
  /\ inFlight[1].text = Null
  /\ sending
  /\ userQueue = << "Hello" >>
  /\ submitted = << Null, "Hello" >>

\* C34: the texts sent are always the first texts submitted, each once, and
\* the n-th text submitted is eventually the n-th text sent.
C34_EveryTextSentOnce ==
  /\ [](IsPrefix(SentTexts, submitted))
  /\ \A n \in 1..MaxRequests :
       (Len(submitted) >= n) ~> (Len(sent) >= n /\ sent[n].text = submitted[n])

\* a text submitted while the welcome request was pending has been sent
\* after that request failed
C34_Witness ==
  /\ failed = 1
  /\ answered = 1
  /\ received = << FallbackMessage >>
  /\ SentTexts = << Null, "Hello" >>
  /\ submitted = SentTexts
  /\ userQueue = << >>
  /\ inFlight = << Request("Hello", sessionId) >>

\* C35: once a response has set the session id to the one it supplies, every
\* request sent from then on carries that id.
C35_RequestsCarryNewSession ==
  [][(sessionId' = "session-2" /\ Len(sent') > Len(sent))
       => sent'[Len(sent')].sessionId = "session-2"]_vars

\* C36: every message removed from the queue has been the current message.
C36_RemovedMessagesWereCurrent == \A i \in 1..consumed : i \in shown

----------------------------------------------------------------------------
(* shouldAdapt and the older snapshots of the history *)

\* the histories of the length of h that agree with h on its three most
\* recent snapshots (every history of that length when h has fewer)
HistoriesAgreeingWith(h) ==
  IF Len(h) < 3
    THEN [ 1..Len(h) -> StatsSnapshots ]
    ELSE { older \o SubSeq(h, Len(h) - 2, Len(h)) :
             older \in [ 1..(Len(h) - 3) -> StatsSnapshots ] }

\* C37: the verdict of shouldAdapt is the verdict for every history of the
\* same length that agrees with the optimizer's on its three most recent
\* snapshots, with the same adaptation counter.
C37_VerdictIgnoresOlderSnapshots ==
  optCall = "shouldAdapt" =>
    \A h \in HistoriesAgreeingWith(performanceHistory) :
      shouldAdapt(adaptationCount, h) = verdict

\* shouldAdapt said yes with a good oldest snapshot and three poor ones
C37_Witness ==
  /\ optCall = "shouldAdapt"
  /\ verdict
  /\ Len(performanceHistory) = 4
  /\ performanceHistory[1] = Stats(Hundredths(50), 60)
  /\ \A i \in 2..4 : performanceHistory[i] = Stats(Hundredths(200), 60)

----------------------------------------------------------------------------
(* The module-level configuration and other optimizer instances *)

\* C38: the module-level OPTIMAL_LIPSYNC_CONFIG keeps the values it was
\* loaded with, and so does the configuration an optimizer that has not
\* adapted holds, on every browser.
C38_ModuleConfigurationUntouched ==
  /\ optimalConfig = OPTIMAL_LIPSYNC_CONFIG
  /\ \A b \in Browsers :
       detectBrowserAndOptimize(b, optimalConfig)
         = detectBrowserAndOptimize(b, OPTIMAL_LIPSYNC_CONFIG)

\* C39: after reset() the optimizer is as a freshly constructed one was when
\* the module was loaded: counter 0, empty history, and the browser default
\* with the original smoothing.
C39_ResetRestoresDefaults ==
  optCall = "reset" =>
    /\ adaptationCount = 0
    /\ performanceHistory = << >>
    /\ currentConfig = detectBrowserAndOptimize(browser, OPTIMAL_LIPSYNC_CONFIG)

----------------------------------------------------------------------------
(* The speech input: SpeechInput in hooks/speechinput.jsx *)

\* listening sessions per run
MaxSessions == 2

\* result events per listening session
MaxResults == 2

\* the transcripts a result event can carry: the final results and the
\* interim results from event.resultIndex on, each concatenated
FinalTranscripts == { "", "hola" }

InterimTranscripts == { "", "como" }

\* finalRef.current after a result whose final transcript is finalStr
accumulated(final, finalStr) ==
  IF finalStr = "" THEN final
  ELSE IF final = "" THEN finalStr
  ELSE final \o " " \o finalStr

\* (finalRef.current + (interimRef.current ? ` ${interimRef.current}` : "")).trim()
transcript(final, interim) ==
  IF interim = "" THEN final
  ELSE IF final = "" THEN interim
  ELSE final \o " " \o interim

\* the delay of the cleanup timeout that onend sets
cleanupDelay(text, sends) == IF text # "" /\ sends THEN 1000 ELSE 0

\* a timeout of 0 ms is pending: it runs before the events that follow
ZeroDelayDue == \E i \in DOMAIN cleanupTimers : cleanupTimers[i] = 0

\* the timeout that runs next
NextTimer ==
  IF ZeroDelayDue
    THEN CHOOSE i \in DOMAIN cleanupTimers : cleanupTimers[i] = 0
    ELSE 1

InitSpeech ==
  /\ NoFrames
  /\ NoTwin
  /\ IdleMonitor
  /\ IdleHandler
  /\ NoSelection
  /\ IdleAvatar
  /\ IdleOptimizer
  /\ queue = << >>
  /\ currentMessage = NoCurrentMessage
  /\ loading = FALSE
  /\ sessionId = "default"
  /\ pumpSessionId = "default"
  /\ submitted = << >>
  /\ sent = << >>
  /\ shown = {}
  /\ userQueue = << >>
  /\ sending = FALSE
  /\ inFlight = << >>
  /\ effectPending = FALSE
  /\ chatMounted = FALSE
  /\ received = << >>
  /\ consumed = 0
  /\ answered = 0
  /\ failed = 0
  /\ listening = FALSE
  /\ recognition = "inactive"
  /\ interimRef = ""
  /\ finalRef = ""
  /\ isProcessing = FALSE
  /\ autoSend \in BOOLEAN
  /\ cleanupTimers = << >>
  /\ heardFinal = ""
  /\ heardInterim = ""
  /\ sessionsStarted = 0
  /\ resultsHeard = 0

\* start(): rec.start() unless listening or loading.  A start() while the
\* recognition is starting throws and only sets the error message.
start ==
  /\ chatMounted
  /\ ~listening
  /\ ~loading
  /\ recognition = "inactive"
  /\ sessionsStarted < MaxSessions
  /\ recognition' = "starting"
  /\ sessionsStarted' = sessionsStarted + 1
  /\ UNCHANGED << listening, interimRef, finalRef, isProcessing, autoSend,
                  cleanupTimers, heardFinal, heardInterim, resultsHeard,
                  chatVars, blendVars, selectVars, handlerVars, optVars,
                  phase, avatarVars, monitorVars, twinVars >>

\* rec.onstart
onstart ==
  /\ recognition = "starting"
  /\ ~ZeroDelayDue
  /\ recognition' = "active"
  /\ listening' = TRUE
  /\ isProcessing' = FALSE
  /\ interimRef' = ""
  /\ finalRef' = ""
  /\ heardFinal' = ""
  /\ heardInterim' = ""
  /\ resultsHeard' = 0
  /\ UNCHANGED << autoSend, cleanupTimers, sessionsStarted, chatVars,
                  blendVars, selectVars, handlerVars, optVars, phase,
                  avatarVars, monitorVars, twinVars >>

\* rec.onresult
onresult ==
  /\ recognition = "active"
  /\ resultsHeard < MaxResults
  /\ \E interimStr \in InterimTranscripts, finalStr \in FinalTranscripts :
       /\ interimRef' = interimStr
       /\ finalRef' = accumulated(finalRef, finalStr)
       /\ heardInterim' = interimStr
       /\ heardFinal' = accumulated(heardFinal, finalStr)
  /\ resultsHeard' = resultsHeard + 1
  /\ UNCHANGED << listening, recognition, isProcessing, autoSend,
                  cleanupTimers, sessionsStarted, chatVars, blendVars,
                  selectVars, handlerVars, optVars, phase, avatarVars,
                  monitorVars, twinVars >>

\* rec.onend, after stop() or when the service ends the session
onend ==
  /\ recognition = "active"
  /\ recognition' = "inactive"
  /\ listening' = FALSE
  /\ LET text == transcript(finalRef, interimRef) IN
       /\ IF text # "" /\ autoSend
            THEN /\ isProcessing' = TRUE
                 /\ PushAndPump(text)
            ELSE UNCHANGED << isProcessing, submitted, userQueue, inFlight,
                              sent, loading, sending, pumpSessionId >>
       /\ cleanupTimers' = Append(cleanupTimers, cleanupDelay(text, autoSend))
  /\ UNCHANGED << interimRef, finalRef, autoSend, heardFinal, heardInterim,
                  sessionsStarted, resultsHeard, queue, currentMessage,
                  sessionId, effectPending, chatMounted, received, consumed,
                  answered, failed, shown, blendVars, selectVars,
                  handlerVars, optVars, phase, avatarVars, monitorVars,
                  twinVars >>

\* the timeout callback set by rec.onend
CleanupFires ==
  /\ Len(cleanupTimers) > 0
  /\ cleanupTimers' = Without(cleanupTimers, NextTimer)
  /\ interimRef' = ""
  /\ finalRef' = ""
  /\ isProcessing' = FALSE
  /\ UNCHANGED << listening, recognition, autoSend, heardFinal,
                  heardInterim, sessionsStarted, resultsHeard, chatVars,
                  blendVars, selectVars, handlerVars, optVars, phase,
                  avatarVars, monitorVars, twinVars >>

\* the chat provider's part is the welcome request and the end of each
\* request, which is what start() waits for through loading
NextSpeech ==
  \/ Mount
  \/ FetchResolves
  \/ FetchRejects
  \/ start
  \/ onstart
  \/ onresult
  \/ onend
  \/ CleanupFires

SpecSpeech == InitSpeech /\ [][NextSpeech]_vars

\* C40: when a listening session ends with auto-send on, the text given to
\* chat() is everything recognised in that session: its final results and
\* the interim text of its last result.
C40_SessionTextIsSentWhole ==
  [][(recognition = "active" /\ recognition' = "inactive" /\ autoSend
        /\ transcript(heardFinal, heardInterim) # "")
       => submitted' = Append(submitted, transcript(heardFinal, heardInterim))]_vars

============================================================================
